---- MODULE Spec2Model ----
(***************************************************************************)
(* Peer connection management, delivery routing, chunked transfer         *)
(* reassembly and message dispatch of the offline music player's P2P      *)
(* layer (services/p2p.ts, App.vue, views/P2PView.vue).                    *)
(*                                                                         *)
(* Four specifications share the variables; each moves one part of the    *)
(* program and leaves the others at their initial values:                 *)
(*   Spec      presence, sessions, signalling, sendTo (safety)            *)
(*   SpecLive  the same with an always-succeeding negotiation (liveness)  *)
(*   SpecXfer  the receiving side of a chunked transfer (P2PView)         *)
(*   SpecDisp  the data handler dispatcher (App.vue)                      *)
(***************************************************************************)
EXTENDS Integers, Sequences, FiniteSets, TLC

VARIABLES
    \* ---- P2PService, one instance per node (services/p2p.ts) ----
    phase,      \* position of init() at each node
    presence,   \* the rendezvous channel's presence set (server side)
    fetched,    \* result of a presence.get() that is awaited, or NoFetch
    evq,        \* presence events published to each node, not yet handled
    sigq,       \* 'signal' messages published to each node, not yet handled
    peers,      \* this.peers: per node, peerId -> session handle
    onlineIds,  \* this.onlineIds
    hcount,     \* number of negotiation handles (new Peer) created per node
    faults,     \* number of leave / error events injected so far
    disconnects,\* per node, number of this.onDisconnect(peerId) invocations
    call,       \* the last sendTo / transfer request call and its effect
    \* ---- receiving side of a transfer (views/P2PView.vue) ----
    inbox,      \* inbound messages of the source peer, with deliveries left
    songChunksBuffer,
    cloneProgress,
    playlists,  \* playlist ids created in storage
    songs,      \* songs in storage
    tasks,      \* handlers suspended at an await
    reasm,      \* every item handed to storage (addSong calls), in order
    xfer,       \* per transfer: playlist created by its clone-start (0: none
                \* yet), count reported, songs that playlist held at the query
    skips,      \* times the chunk handler returned at "already processed"
    gone,       \* a peer-gone event for the source peer has been processed
    \* ---- dispatcher (App.vue) ----
    dataHandlers,
    registered, \* number of handler functions registered so far
    disp,       \* dispatches in progress
    dlog,       \* what each dispatch has invoked
    \* ---- sending side of a transfer (App.vue, 'request-clone') ----
    send,       \* per request: position of its handler in the send loop
    emitted,    \* per request: the messages passed to sendTo, in order
    \* ---- the map view (P2PView.vue, onMounted) ----
    loc,        \* the location-request timer of the mounted view
    \* ---- mounting of the shell and of the view (App.vue, P2PView.vue) ----
    mnt         \* the shell's onMounted, p2pService.onData, the view's handler

netVars  == <<phase, presence, fetched, evq, sigq, peers, onlineIds, hcount,
              faults, disconnects, call>>
xferVars == <<inbox, songChunksBuffer, cloneProgress, playlists, songs, tasks,
              reasm, xfer, skips, gone>>
dispVars == <<dataHandlers, registered, disp, dlog>>
sendVars == <<send, emitted>>
viewVars == <<loc>>
mountVars == <<mnt>>
vars     == <<netVars, xferVars, dispVars, sendVars, viewVars, mountVars>>

----------------------------------------------------------------------------
(* Bounds *)

\* leave and error events injected in one run
MaxFaults == 1
\* items of the transfer and chunks of each item
NumItems == 2
ChunksPerItem == 2
\* chunk messages delivered a second time in one run
MaxDup == 1
\* inbound messages dispatched in one run
MaxMsgs == 2
\* handler functions registered in one run
MaxHandlers == 2

\* Node identifiers. localId is a random string (p2p.ts:13); the numbers
\* stand for the rank of the strings under JavaScript's string comparison.
Nodes == {1, 2}

NoFetch == [has |-> FALSE, ids |-> {}]

----------------------------------------------------------------------------
(* Maps with a changing key set (JavaScript Map) *)

MapSet(tbl, k, v) == [x \in (DOMAIN tbl) \cup {k} |-> IF x = k THEN v ELSE tbl[x]]
MapDelete(tbl, k) == [x \in (DOMAIN tbl) \ {k} |-> tbl[x]]
EmptyMap == [x \in {} |-> 0]

PeersHasAlwaysFalse(tbl, peerId) == FALSE
\* this.peers.has(peerId)
PeersHas(tbl, peerId) == peerId \in DOMAIN tbl

InitiatorAlways(localId, remoteId) == TRUE
\* const initiator = this.localId > member.clientId
IsInitiator(localId, remoteId) == localId > remoteId


----------------------------------------------------------------------------
(* Negotiation handle (simple-peer instance) as the service sees it *)

NoSignal == [type |-> "none"]

\* new Peer({ initiator, trickle: true, ... }); warned: the connection timeout
\* set at the end of createPeer has logged its warning.
NewSession(h, initiator) ==
    [h |-> h, init |-> initiator, st |-> "new", rh |-> 0, connected |-> FALSE,
     warned |-> FALSE]

\* peer.signal(signal): a responder takes the first offer, an initiator takes
\* the answer to its own offer; anything else leaves the handle as it is.
FeedSignal(sess, sig) ==
    IF sig.type = "offer" /\ ~sess.init /\ sess.st = "new"
    THEN [sess EXCEPT !.st = "gotoffer", !.rh = sig.h]
    ELSE IF sig.type = "answer" /\ sess.init /\ sess.st = "offered" /\ sig.rh = sess.h
    THEN [sess EXCEPT !.st = "ready", !.rh = sig.h]
    ELSE sess

\* The part of a node's state createPeer works on.
Local(n) == [peers |-> peers[n], hcount |-> hcount[n]]

CreatePeerSameHandle(s, peerId, initiator, offerSignal) ==
    IF PeersHas(s.peers, peerId)
    THEN s
    ELSE LET h     == IF s.hcount = 0 THEN 1 ELSE s.hcount
             fresh == NewSession(h, initiator)
             sess  == IF offerSignal = NoSignal THEN fresh
                      ELSE FeedSignal(fresh, offerSignal)
         IN  [peers |-> MapSet(s.peers, peerId, sess), hcount |-> h]
\* createPeer(peerId, initiator, offerSignal?)
CreatePeer(s, peerId, initiator, offerSignal) ==
    IF PeersHas(s.peers, peerId)
    THEN s
    ELSE LET h     == s.hcount + 1
             fresh == NewSession(h, initiator)
             sess  == IF offerSignal = NoSignal THEN fresh
                      ELSE FeedSignal(fresh, offerSignal)
         IN  [peers |-> MapSet(s.peers, peerId, sess), hcount |-> h]

OnMemberSkip(localId, s, id) == s
\* if (!this.peers.has(id)) this.createPeer(id, this.localId > id)
OnMember(localId, s, id) ==
    IF ~PeersHas(s.peers, id)
    THEN CreatePeer(s, id, IsInitiator(localId, id), NoSignal)
    ELSE s

RECURSIVE ForEachMember(_, _, _)
\* members.forEach(...) over the identifiers other than the local one
ForEachMember(localId, s, ids) ==
    IF ids = {} THEN s
    ELSE LET id == CHOOSE x \in ids : \A y \in ids : x <= y
         IN  ForEachMember(localId, OnMember(localId, s, id), ids \ {id})

HandleSignalExistingOnly(s, message) ==
    IF message.from \in DOMAIN s.peers
    THEN [s EXCEPT !.peers[message.from] = FeedSignal(s.peers[message.from], message)]
    ELSE s
\* handleSignal(message)
HandleSignal(s, message) ==
    LET peerId == message.from IN
    IF peerId \in DOMAIN s.peers
    THEN [s EXCEPT !.peers[peerId] = FeedSignal(s.peers[peerId], message)]
    ELSE IF message.type = "offer"
    THEN CreatePeer(s, peerId, FALSE, message)
    ELSE s

OnSignalMessageAnyAddressee(localId, s, data) == HandleSignal(s, data)
\* channel.subscribe('signal', ...): if (message.data.to === this.localId)
\* this.handleSignal(message.data)
OnSignalMessage(localId, s, data) ==
    IF data.to = localId THEN HandleSignal(s, data) ELSE s

\* channel.publish('signal', data): every attached subscriber gets the
\* message; the subscriber callback of a node other than data.to returns at
\* once (message.data.to === this.localId), so only the addressee queues it.
PublishSignal(q, msg) ==
    [m \in Nodes |-> IF phase[m] \notin {"off", "destroyed"} /\ msg.to = m
                     THEN Append(q[m], msg) ELSE q[m]]

\* A presence event of member reaches every attached subscriber; the enter
\* handler of the member itself returns at once (clientId !== this.localId)
\* and its leave handler finds nothing to remove, so only the others queue it.
PublishPresence(q, ev) ==
    [m \in Nodes |-> IF phase[m] \notin {"off", "destroyed"} /\ ev.clientId # m
                     THEN Append(q[m], ev) ELSE q[m]]

IsDirectConnectedExists(n, peerId) == peerId \in DOMAIN peers[n]
\* isDirectConnected(peerId): !!(peer && peer.connected)
IsDirectConnected(n, peerId) ==
    peerId \in DOMAIN peers[n] /\ peers[n][peerId].connected

----------------------------------------------------------------------------
(* P2PService.init() and the handlers it subscribes *)

NoCall == [op |-> "none"]

InitNet ==
    /\ phase     = [n \in Nodes |-> "off"]
    /\ presence  = {}
    /\ fetched   = [n \in Nodes |-> NoFetch]
    /\ evq       = [n \in Nodes |-> <<>>]
    /\ sigq      = [n \in Nodes |-> <<>>]
    /\ peers     = [n \in Nodes |-> EmptyMap]
    /\ onlineIds = [n \in Nodes |-> {}]
    /\ hcount    = [n \in Nodes |-> 0]
    /\ faults    = 0
    /\ disconnects = [n \in Nodes |-> 0]
    /\ call      = NoCall

\* init() up to the subscriptions: channel attached, the signal, data,
\* broadcast, enter and leave handlers registered; presence.enter is awaited.
Attach(n) ==
    /\ phase[n] = "off"
    /\ phase' = [phase EXCEPT ![n] = "subscribed"]
    /\ UNCHANGED <<presence, fetched, evq, sigq, peers, onlineIds, hcount, faults, disconnects, call>>

\* await this.channel.presence.enter(...): the node joins the presence set and
\* every subscriber is sent an enter event.
EnterAck(n) ==
    /\ phase[n] = "subscribed"
    /\ phase' = [phase EXCEPT ![n] = "entered"]
    /\ presence' = presence \cup {n}
    /\ evq' = PublishPresence(evq, [type |-> "enter", clientId |-> n])
    /\ UNCHANGED <<fetched, sigq, peers, onlineIds, hcount, faults, disconnects, call>>

\* const existingMembers = await this.channel.presence.get(): the snapshot is
\* taken when the request is served and handled when the promise resolves.
SnapshotFetch(n) ==
    /\ phase[n] = "entered"
    /\ phase' = [phase EXCEPT ![n] = "snapwait"]
    /\ fetched' = [fetched EXCEPT ![n] = [has |-> TRUE, ids |-> presence]]
    /\ UNCHANGED <<presence, evq, sigq, peers, onlineIds, hcount, faults, disconnects, call>>

\* existingMembers.forEach(...)
SnapshotApply(n) ==
    /\ phase[n] = "snapwait"
    /\ LET ids == fetched[n].ids \ {n}
           s   == ForEachMember(n, Local(n), ids)
       IN  /\ onlineIds' = [onlineIds EXCEPT ![n] = @ \cup ids]
           /\ peers'  = [peers EXCEPT ![n] = s.peers]
           /\ hcount' = [hcount EXCEPT ![n] = s.hcount]
    /\ phase' = [phase EXCEPT ![n] = "running"]
    /\ fetched' = [fetched EXCEPT ![n] = NoFetch]
    /\ UNCHANGED <<presence, evq, sigq, faults, disconnects, call>>

\* refresh(), first half: members = await this.channel.presence.get()
\* (the initial refresh and every tick of setInterval(refresh, 10000))
RefreshFetch(n) ==
    /\ phase[n] = "running"
    /\ fetched[n] = NoFetch
    /\ fetched' = [fetched EXCEPT ![n] = [has |-> TRUE, ids |-> presence]]
    /\ UNCHANGED <<phase, presence, evq, sigq, peers, onlineIds, hcount, faults, disconnects, call>>

\* refresh(), second half: this.onlineIds = ids; ids.forEach(create if absent).
\* The continuation tests nothing: it runs whenever the promise of
\* presence.get() resolves, also during and after destroy().
RefreshApply(n) ==
    /\ phase[n] \in {"running", "detaching", "destroyed"}
    /\ fetched[n] # NoFetch
    /\ LET ids == fetched[n].ids \ {n}
           s   == ForEachMember(n, Local(n), ids)
       IN  /\ onlineIds' = [onlineIds EXCEPT ![n] = ids]
           /\ peers'  = [peers EXCEPT ![n] = s.peers]
           /\ hcount' = [hcount EXCEPT ![n] = s.hcount]
    /\ fetched' = [fetched EXCEPT ![n] = NoFetch]
    /\ UNCHANGED <<phase, presence, evq, sigq, faults, disconnects, call>>

\* presence.subscribe('enter', ...)
OnEnter(n, member) ==
    IF member.clientId # n
    THEN LET s == OnMember(n, Local(n), member.clientId)
         IN  /\ onlineIds' = [onlineIds EXCEPT ![n] = @ \cup {member.clientId}]
             /\ peers'  = [peers EXCEPT ![n] = s.peers]
             /\ hcount' = [hcount EXCEPT ![n] = s.hcount]
             /\ UNCHANGED disconnects
    ELSE UNCHANGED <<onlineIds, peers, hcount, disconnects>>

OnLeaveKeepSession(n, member) ==
    /\ onlineIds' = [onlineIds EXCEPT ![n] = @ \ {member.clientId}]
    /\ UNCHANGED <<peers, disconnects, hcount>>
\* presence.subscribe('leave', ...): this.onlineIds.delete(id); if a session
\* exists: peer.destroy(); this.peers.delete(id); this.onDisconnect(id).
\* destroy() makes the handle emit 'close' in a microtask, which runs when the
\* leave handler has returned and before any other event: the close handler
\* deletes the (absent) entry and invokes onDisconnect a second time.
OnLeave(n, member) ==
    /\ onlineIds' = [onlineIds EXCEPT ![n] = @ \ {member.clientId}]
    /\ peers' = [peers EXCEPT ![n] = MapDelete(@, member.clientId)]
    /\ disconnects' = [disconnects EXCEPT ![n] =
                          IF member.clientId \in DOMAIN peers[n] THEN @ + 2 ELSE @]
    /\ UNCHANGED hcount

\* The next presence event published to node n is handled.
PresenceEvent(n) ==
    /\ evq[n] # <<>>
    /\ LET member == Head(evq[n])
       IN  IF member.type = "enter" THEN OnEnter(n, member) ELSE OnLeave(n, member)
    /\ evq' = [evq EXCEPT ![n] = Tail(@)]
    /\ UNCHANGED <<phase, presence, fetched, sigq, faults, call>>

\* destroy() is called and awaits this.channel.detach().
DestroyCall(n) ==
    /\ phase[n] = "running"
    /\ phase' = [phase EXCEPT ![n] = "detaching"]
    /\ UNCHANGED <<presence, fetched, evq, sigq, peers, onlineIds, hcount, faults,
                   disconnects, call>>

\* destroy() after its awaits: the channel is detached and the connection
\* closed (the node leaves the presence set and is sent nothing more), every
\* session is destroyed (each emits 'close', whose handler invokes
\* onDisconnect), this.peers and this.onlineIds are cleared, the refresh
\* interval is cleared. this.channel and this.ably keep their values.
DestroyDone(n) ==
    /\ phase[n] = "detaching"
    /\ phase' = [phase EXCEPT ![n] = "destroyed"]
    /\ presence' = presence \ {n}
    /\ evq' = [m \in Nodes |->
                  IF m = n THEN <<>>
                  ELSE IF n \in presence /\ phase[m] \notin {"off", "destroyed"}
                  THEN Append(evq[m], [type |-> "leave", clientId |-> n])
                  ELSE evq[m]]
    /\ sigq' = [sigq EXCEPT ![n] = <<>>]
    /\ peers' = [peers EXCEPT ![n] = EmptyMap]
    /\ onlineIds' = [onlineIds EXCEPT ![n] = {}]
    /\ disconnects' = [disconnects EXCEPT ![n] = @ + Cardinality(DOMAIN peers[n])]
    /\ UNCHANGED <<fetched, hcount, faults, call>>

\* The rendezvous client hands a 'leave' and the 'enter' that follows it to the
\* subscribers in one task (both came in one protocol message): the leave
\* handler destroys and deletes the session, the enter handler creates a new
\* one, and only then does the microtask of destroy() run: the destroyed
\* handle emits 'close', whose handler does this.peers.delete(peerId) and
\* this.onDisconnect(peerId).
PresenceBatch(n) ==
    /\ Len(evq[n]) >= 2
    /\ evq[n][1].type = "leave" /\ evq[n][2].type = "enter"
    /\ LET left    == evq[n][1].clientId
           entered == evq[n][2].clientId
           had     == left \in DOMAIN peers[n]
           s1      == [peers |-> MapDelete(peers[n], left), hcount |-> hcount[n]]
           s2      == IF entered # n THEN OnMember(n, s1, entered) ELSE s1
       IN  /\ onlineIds' = [onlineIds EXCEPT ![n] =
                                IF entered # n THEN (@ \ {left}) \cup {entered}
                                ELSE @ \ {left}]
           /\ peers' = [peers EXCEPT ![n] =
                            IF had THEN MapDelete(s2.peers, left) ELSE s2.peers]
           /\ hcount' = [hcount EXCEPT ![n] = s2.hcount]
           /\ disconnects' = [disconnects EXCEPT ![n] = IF had THEN @ + 2 ELSE @]
    /\ evq' = [evq EXCEPT ![n] = Tail(Tail(@))]
    /\ UNCHANGED <<phase, presence, fetched, sigq, faults, call>>

\* peer.on('signal'), initiator: the handle produces its offer, which is
\* published on the signal topic.
EmitOffer(n, p) ==
    /\ p \in DOMAIN peers[n]
    /\ peers[n][p].init /\ peers[n][p].st = "new"
    /\ peers' = [peers EXCEPT ![n][p].st = "offered"]
    /\ sigq' = PublishSignal(sigq, [to |-> p, from |-> n, type |-> "offer",
                              h |-> peers[n][p].h, rh |-> 0])
    /\ UNCHANGED <<phase, presence, fetched, evq, onlineIds, hcount, faults, disconnects, call>>

\* peer.on('signal'), responder: the handle produces the answer to the offer
\* it was fed.
EmitAnswer(n, p) ==
    /\ p \in DOMAIN peers[n]
    /\ ~peers[n][p].init /\ peers[n][p].st = "gotoffer"
    /\ peers' = [peers EXCEPT ![n][p].st = "answered"]
    /\ sigq' = PublishSignal(sigq, [to |-> p, from |-> n, type |-> "answer",
                              h |-> peers[n][p].h, rh |-> peers[n][p].rh])
    /\ UNCHANGED <<phase, presence, fetched, evq, onlineIds, hcount, faults, disconnects, call>>

\* channel.subscribe('signal', ...): only a message addressed to the local
\* identifier reaches handleSignal.
SignalEvent(n) ==
    /\ sigq[n] # <<>>
    /\ LET message == Head(sigq[n])
           s == OnSignalMessage(n, Local(n), message)
       IN  /\ peers'  = [peers EXCEPT ![n] = s.peers]
           /\ hcount' = [hcount EXCEPT ![n] = s.hcount]
    /\ sigq' = [sigq EXCEPT ![n] = Tail(@)]
    /\ UNCHANGED <<phase, presence, fetched, evq, onlineIds, faults, disconnects, call>>

\* An identifier of another client of the channel, not one of Nodes.
Stranger == 3

\* Signals that clients publish for the stranger.
StrayMsgs ==
    {[to |-> Stranger, from |-> p, type |-> t, h |-> 1, rh |-> 0] :
        p \in Nodes, t \in {"offer", "answer"}}

\* A 'signal' message addressed to another identifier reaches the subscriber
\* of node n (every subscriber of the channel gets every message).
StraySignal(n, msg) ==
    /\ phase[n] # "off"
    /\ msg.from # n
    /\ LET s == OnSignalMessage(n, Local(n), msg)
       IN  /\ peers'  = [peers EXCEPT ![n] = s.peers]
           /\ hcount' = [hcount EXCEPT ![n] = s.hcount]
    /\ UNCHANGED <<phase, presence, fetched, evq, sigq, onlineIds, faults,
                   disconnects, call>>

\* Offer and answer have been exchanged between the two handles now in the
\* tables of n and p.
Negotiated(n, p) ==
    /\ p \in DOMAIN peers[n] /\ n \in DOMAIN peers[p]
    /\ LET a == peers[n][p]
           b == peers[p][n]
       IN  /\ a.rh = b.h /\ b.rh = a.h
           /\ \/ a.init  /\ a.st = "ready"    /\ b.st = "answered"
              \/ ~a.init /\ a.st = "answered" /\ b.st = "ready"

\* peer.on('connect'): the direct channel of the handle opens.
Connect(n, p) ==
    /\ Negotiated(n, p)
    /\ ~peers[n][p].connected
    /\ peers' = [peers EXCEPT ![n][p].connected = TRUE]
    /\ UNCHANGED <<phase, presence, fetched, evq, sigq, onlineIds, hcount, faults, disconnects, call>>

\* peer.on('close') / peer.on('error'): this.peers.delete(peerId);
\* this.onDisconnect(peerId). A handle that closes emits 'close'; a handle that
\* fails emits 'error' and then 'close' in the same microtask, so both
\* handlers run, one after the other.
PeerFail(n, p, kind) ==
    /\ faults < MaxFaults
    /\ p \in DOMAIN peers[n]
    /\ peers' = [peers EXCEPT ![n] = MapDelete(@, p)]
    /\ disconnects' = [disconnects EXCEPT ![n] = IF kind = "error" THEN @ + 2 ELSE @ + 1]
    /\ faults' = faults + 1
    /\ UNCHANGED <<phase, presence, fetched, evq, sigq, onlineIds, hcount, call>>

OnTimeoutDestroy(sessions, peerId) ==
    IF ~sessions[peerId].connected THEN MapDelete(sessions, peerId) ELSE sessions
\* setTimeout(() => { if (!peer.connected) console.warn(...) }, 10000): the
\* callback reads the handle and logs; the table entry is marked as warned.
OnTimeout(sessions, peerId) ==
    IF ~sessions[peerId].connected
    THEN [sessions EXCEPT ![peerId].warned = TRUE]
    ELSE sessions

\* The 10 s timer started by createPeer for the session of node n toward p
\* fires (once per handle).
Timeout(n, p) ==
    /\ p \in DOMAIN peers[n]
    /\ ~peers[n][p].warned
    /\ peers' = [peers EXCEPT ![n] = OnTimeout(@, p)]
    /\ UNCHANGED <<phase, presence, fetched, evq, sigq, onlineIds, hcount, faults, disconnects, call>>

\* The rendezvous service drops node n from the presence set (connection
\* lost); every subscriber is sent a leave event.
PresenceLeave(n) ==
    /\ faults < MaxFaults
    /\ phase[n] = "running" /\ n \in presence
    /\ presence' = presence \ {n}
    /\ evq' = PublishPresence(evq, [type |-> "leave", clientId |-> n])
    /\ faults' = faults + 1
    /\ UNCHANGED <<phase, fetched, sigq, peers, onlineIds, hcount, disconnects, call>>

\* The connection of node n is back and it re-enters the presence set.
PresenceRejoin(n) ==
    /\ phase[n] = "running" /\ n \notin presence
    /\ presence' = presence \cup {n}
    /\ evq' = PublishPresence(evq, [type |-> "enter", clientId |-> n])
    /\ UNCHANGED <<phase, fetched, sigq, peers, onlineIds, hcount, faults, disconnects, call>>

----------------------------------------------------------------------------
(* Delivery routing and chunk size selection *)

\* Data messages the callers send (the type tag stands for the message).
DataMsgs == {"request-location"}

\* larger chunks over WebRTC
DIRECT_CHUNK_SIZE == 65536
\* safer size over the Ably fallback
RELAY_CHUNK_SIZE == 30720

\* What the table of node n holds for peerId before a call.
SessionState(n, peerId) ==
    IF peerId \notin DOMAIN peers[n] THEN "none"
    ELSE IF peers[n][peerId].connected THEN "connected" ELSE "negotiating"

SendToDirectOnly(n, peerId, data) ==
    [direct |-> IF peerId \in DOMAIN peers[n] /\ peers[n][peerId].connected
                THEN <<data>> ELSE <<>>,
     relay  |-> IF peerId \in DOMAIN peers[n] THEN <<>>
                ELSE <<[to |-> peerId, from |-> n, payload |-> data]>>,
     threw  |-> peerId \in DOMAIN peers[n] /\ ~peers[n][peerId].connected]
\* sendTo(peerId, data): what is written to the direct channel of the session,
\* what is published on the 'data' topic of the rendezvous channel, and whether
\* the call throws. peer.send is reached only behind peer?.connected, and the
\* publish behind this.channel?. : no statement of either branch throws.
SendToEffect(n, peerId, data) ==
    IF peerId \in DOMAIN peers[n] /\ peers[n][peerId].connected
    THEN [direct |-> <<data>>, relay |-> <<>>, threw |-> FALSE]
    ELSE [direct |-> <<>>,
          relay  |-> IF phase[n] # "off"
                     THEN <<[to |-> peerId, from |-> n, payload |-> data]>>
                     ELSE <<>>,
          threw  |-> FALSE]

\* A caller (App.vue, P2PView.vue) calls p2pService.sendTo(peerId, data).
SendTo(n, peerId, data) ==
    /\ call = NoCall
    /\ phase[n] # "off" /\ peerId # n
    /\ call' = [op |-> "sendTo", n |-> n, peerId |-> peerId, data |-> data,
                ctx |-> SessionState(n, peerId),
                eff |-> SendToEffect(n, peerId, data)]
    /\ UNCHANGED <<phase, presence, fetched, evq, sigq, peers, onlineIds, hcount, faults, disconnects>>

\* onData 'request-clone': const CHUNK_SIZE = ...
CloneChunkSize(n, peerId) ==
    IF IsDirectConnected(n, peerId) THEN DIRECT_CHUNK_SIZE ELSE RELAY_CHUNK_SIZE

\* onData 'request-song': const CHUNK_SIZE = ...
SongChunkSize(n, peerId) ==
    IF IsDirectConnected(n, peerId) THEN DIRECT_CHUNK_SIZE ELSE RELAY_CHUNK_SIZE

\* Node n handles a 'request-clone' or 'request-song' message of peerId and
\* fixes the chunk size of the transfer.
RequestTransfer(n, peerId, kind) ==
    /\ call = NoCall
    /\ phase[n] # "off" /\ peerId # n
    /\ call' = [op |-> kind, n |-> n, peerId |-> peerId,
                ctx |-> SessionState(n, peerId),
                isDirect |-> IsDirectConnected(n, peerId),
                chunkSize |-> IF kind = "request-clone"
                              THEN CloneChunkSize(n, peerId)
                              ELSE SongChunkSize(n, peerId)]
    /\ UNCHANGED <<phase, presence, fetched, evq, sigq, peers, onlineIds, hcount, faults, disconnects>>

\* What the caller of sendTo or broadcast gets back when the call has made the
\* publishes in published and the rendezvous service refuses them: both
\* methods are declared void and drop the promise of channel.publish, so the
\* call returns undefined before the publish settles and a rejection is
\* observed by nobody. No statement publishes a second time.
PublishOutcome(published, publishFails) ==
    [threw      |-> FALSE,
     returned   |-> "undefined",
     publishes  |-> Len(published),
     unobserved |-> publishFails /\ published # <<>>]

\* sendTo(peerId, data) while the rendezvous service accepts or refuses the
\* publish.
SendToCall(n, peerId, data, publishFails) ==
    /\ call = NoCall
    /\ phase[n] # "off" /\ peerId # n
    /\ LET eff == SendToEffect(n, peerId, data)
       IN  call' = [op |-> "sendTo", n |-> n, peerId |-> peerId, data |-> data,
                    ctx |-> SessionState(n, peerId), eff |-> eff,
                    publishFails |-> publishFails,
                    out |-> PublishOutcome(eff.relay, publishFails)]
    /\ UNCHANGED <<phase, presence, fetched, evq, sigq, peers, onlineIds, hcount, faults, disconnects>>

\* The peers of node n whose session is connected.
ConnectedPeers(n) == {p \in DOMAIN peers[n] : peers[n][p].connected}

BroadcastAlsoDirect(n, data) ==
    [direct    |-> [p \in ConnectedPeers(n) |-> <<data>>],
     broadcast |-> IF phase[n] = "off" THEN <<>>
                   ELSE <<[from |-> n, payload |-> data]>>]
\* broadcast(data): what is written to the direct channels, per peer, and what
\* is published on the 'broadcast' topic. Without a channel the call warns
\* and returns.
BroadcastEffect(n, data) ==
    [direct    |-> [p \in ConnectedPeers(n) |-> <<>>],
     broadcast |-> IF phase[n] = "off" THEN <<>>
                   ELSE <<[from |-> n, payload |-> data]>>]

\* App.vue calls p2pService.broadcast(data) once init() has returned, with or
\* without a channel.
BroadcastCall(n, data, publishFails) ==
    /\ call = NoCall
    /\ LET eff == BroadcastEffect(n, data)
       IN  call' = [op |-> "broadcast", n |-> n, data |-> data,
                    ready |-> phase[n] # "off",
                    connected |-> ConnectedPeers(n),
                    eff |-> [direct |-> eff.direct, relay |-> eff.broadcast],
                    publishFails |-> publishFails,
                    out |-> PublishOutcome(eff.broadcast, publishFails)]
    /\ UNCHANGED <<phase, presence, fetched, evq, sigq, peers, onlineIds, hcount, faults, disconnects>>

\* Inbound messages that are not well formed, per entry point:
\*   undecodable  bytes on a direct channel that JSON.parse rejects
\*   noData       a rendezvous message without data
\*   noAddress    data without the to / from fields
\*   noPayload    addressed data without payload (direct channel: JSON null)
\*   noType       a payload object without type
\*   typeOnly     a payload {type: 'request-clone'} without its own payload
\*   noSignal     an addressed signal message without signal
MalformedOn(topic) ==
    CASE topic = "direct"    -> {"undecodable", "noPayload", "noType", "typeOnly"}
      [] topic = "data"      -> {"noData", "noAddress", "noPayload", "noType", "typeOnly"}
      [] topic = "broadcast" -> {"noData", "noAddress", "noPayload", "noType", "typeOnly"}
      [] topic = "signal"    -> {"noData", "noAddress", "noSignal"}

InboundTopics == {"direct", "data", "broadcast", "signal"}

\* The message was dropped by a guard or a catch of the service.
Dropped == [dispatched |-> FALSE, uncaught |-> "none"]

\* p2pService.onData(peerId, data) of App.vue, called without await or catch
\* by the service: an async function, so what it throws outside its try
\* blocks rejects a promise nobody holds. data.type is read first; the
\* registered handlers run inside try/catch; 'request-clone' reads
\* data.payload.playlistId before its try.
DispatchMalformed(shape) ==
    CASE shape = "noPayload" -> [dispatched |-> TRUE, uncaught |-> "rejection"]
      [] shape = "typeOnly"  -> [dispatched |-> TRUE, uncaught |-> "rejection"]
      [] shape = "noType"    -> [dispatched |-> TRUE, uncaught |-> "none"]

\* peer.on('data'): JSON.parse inside try/catch, then onData.
OnPeerData(shape) ==
    IF shape = "undecodable" THEN Dropped ELSE DispatchMalformed(shape)

\* channel.subscribe('data' | 'broadcast'): message.data || {}, the to / from
\* guards, then onData(from, payload).
OnRelayMessage(shape) ==
    IF shape \in {"noData", "noAddress"} THEN Dropped ELSE DispatchMalformed(shape)

\* channel.subscribe('signal'): message.data.to is read without a guard, and
\* handleSignal reads signal.type before anything else: both throw out of the
\* subscriber.
OnSignalMalformed(shape) ==
    CASE shape = "noData"    -> [dispatched |-> FALSE, uncaught |-> "exception"]
      [] shape = "noAddress" -> Dropped
      [] shape = "noSignal"  -> [dispatched |-> FALSE, uncaught |-> "exception"]

\* Node n receives a malformed message of peer p on one of its entry points.
\* Every path above ends before a session, the peer set or a buffer is
\* written.
ReceiveMalformed(n, p, topic, shape) ==
    /\ call = NoCall
    /\ phase[n] # "off" /\ p # n
    /\ shape \in MalformedOn(topic)
    /\ topic = "direct" => p \in ConnectedPeers(n)
    /\ call' = [op |-> "receive", n |-> n, peerId |-> p, topic |-> topic,
                shape |-> shape,
                out |-> CASE topic = "direct" -> OnPeerData(shape)
                          [] topic = "signal" -> OnSignalMalformed(shape)
                          [] OTHER            -> OnRelayMessage(shape)]
    /\ UNCHANGED <<phase, presence, fetched, evq, sigq, peers, onlineIds, hcount, faults, disconnects>>

OnDataMessageAnySender(localId, msg) == msg.to = localId
\* channel.subscribe('data', ...): whether onData(from, payload) is reached.
\* if (!to || !from) return; if (to !== this.localId) return;
\* if (from === this.localId) return
OnDataMessage(localId, msg) ==
    IF msg.to # localId THEN FALSE
    ELSE IF msg.from = localId THEN FALSE
    ELSE TRUE

\* channel.subscribe('broadcast', ...): if (!from || from === this.localId) return
OnBroadcastMessage(localId, msg) == msg.from # localId

\* The clients that publish on the channel: the nodes and the stranger.
Clients == Nodes \cup {Stranger}

\* A well-formed message published on the 'data' or the 'broadcast' topic
\* reaches the subscriber of node n: every subscriber gets every message of the
\* channel, the publisher its own ones too.
ReceiveRelay(n, topic, msg) ==
    /\ call = NoCall
    /\ phase[n] # "off"
    /\ call' = [op |-> "deliver", n |-> n, topic |-> topic, msg |-> msg,
                invoked |-> IF topic = "data" THEN OnDataMessage(n, msg)
                            ELSE OnBroadcastMessage(n, msg)]
    /\ UNCHANGED <<phase, presence, fetched, evq, sigq, peers, onlineIds, hcount, faults, disconnects>>

\* The call returns to the event loop. The services run on one thread: no
\* handler runs between a call and its return.
CallReturns ==
    /\ call # NoCall
    /\ call' = NoCall
    /\ UNCHANGED <<phase, presence, fetched, evq, sigq, peers, onlineIds, hcount, faults, disconnects>>

----------------------------------------------------------------------------
(* Receiving side of a chunked transfer: P2PView's dataHandler *)

\* The source peer of the transfer.
SrcPeer == "user_src"

Items    == 0 .. (NumItems - 1)
ChunkIdx == 0 .. (ChunksPerItem - 1)
Transfers == {1, 2}

\* An empty array slot. Chunk data is a non-empty sequence of positive
\* numbers (a piece of the base64 text), so <<0>> is no chunk.
Undefined == <<0>>
\* The piece of item i the sender cuts as chunk c.
ChunkData(i, c) == <<10 * (i + 1) + c>>

NoMeta == [type |-> "null"]

StartMsg(t)    == [type |-> "clone-start", t |-> t, totalSongs |-> NumItems]
MetaMsg(i)     == [type |-> "clone-song-meta", songIndex |-> i,
                   totalChunks |-> ChunksPerItem]
ChunkMsg(i, c) == [type |-> "clone-song-chunk", songIndex |-> i, chunkIndex |-> c,
                   totalChunks |-> ChunksPerItem, data |-> ChunkData(i, c)]
CompleteMsg(t) == [type |-> "clone-complete", t |-> t]

\* Transfer 1 in full, and the clone-start of a second request of the user.
AllMsgs ==
    {StartMsg(1), CompleteMsg(1), StartMsg(2)}
    \cup {MetaMsg(i) : i \in Items}
    \cup {ChunkMsg(i, c) : i \in Items, c \in ChunkIdx}

\* Chunk messages of item 0 as a faulty or foreign sender may cut them: the
\* index runs one past the declared range, and totalChunks is the declared
\* value or one less.
OddTotals == {tc \in {ChunksPerItem - 1, ChunksPerItem} : tc >= 1}
OddChunkMsgs ==
    {[type |-> "clone-song-chunk", songIndex |-> 0, chunkIndex |-> c,
      totalChunks |-> tc, data |-> ChunkData(0, c)] :
        c \in 0 .. ChunksPerItem, tc \in OddTotals}
OddMsgs == {MetaMsg(0)} \cup OddChunkMsgs

RECURSIVE JoinFrom(_, _)
\* buffer.chunks.join(''): the slots in index order, an empty slot adds nothing
JoinFrom(chunks, k) ==
    IF k > Len(chunks) THEN <<>>
    ELSE (IF chunks[k] = Undefined THEN <<>> ELSE chunks[k]) \o JoinFrom(chunks, k + 1)
Join(chunks) == JoinFrom(chunks, 1)

\* new Array(totalChunks)
NewArray(n) == [k \in 1 .. n |-> Undefined]

ArrayPush(arr, index, value) == Append(arr, value)
\* array[index] = value (index from 0; the array grows when index >= length)
ArraySet(arr, index, value) ==
    [k \in 1 .. (IF index + 1 > Len(arr) THEN index + 1 ELSE Len(arr)) |->
        IF k = index + 1 THEN value
        ELSE IF k <= Len(arr) THEN arr[k] ELSE Undefined]

\* `${peerId}-${songIndex}`
BufKey(peerId, songIndex) == <<peerId, songIndex>>

OnSongMetaReset(sb, peerId, payload) ==
    MapSet(sb, BufKey(peerId, payload.songIndex),
           [chunks |-> NewArray(payload.totalChunks),
            totalChunks |-> payload.totalChunks,
            metadata |-> payload, processed |-> FALSE])
\* case 'clone-song-meta'
OnSongMeta(sb, peerId, payload) ==
    LET key == BufKey(peerId, payload.songIndex) IN
    IF key \notin DOMAIN sb
    THEN MapSet(sb, key, [chunks |-> NewArray(payload.totalChunks),
                          totalChunks |-> payload.totalChunks,
                          metadata |-> payload, processed |-> FALSE])
    ELSE [sb EXCEPT ![key].metadata = payload]

NoSong == [none |-> TRUE]

HandleSongChunkNoGuard(sb, progress, peerId, payload) ==
    LET key    == BufKey(peerId, payload.songIndex)
        sb0    == IF key \notin DOMAIN sb
                  THEN MapSet(sb, key, [chunks |-> NewArray(payload.totalChunks),
                                        totalChunks |-> payload.totalChunks,
                                        metadata |-> NoMeta, processed |-> FALSE])
                  ELSE sb
        chunks == ArraySet(sb0[key].chunks, payload.chunkIndex, payload.data)
        sb1    == [sb0 EXCEPT ![key].chunks = chunks]
        receivedChunks == Cardinality({k \in DOMAIN chunks : chunks[k] # Undefined})
    IN  IF receivedChunks = payload.totalChunks /\ sb1[key].metadata # NoMeta
        THEN [sb |-> [sb1 EXCEPT ![key].processed = TRUE], skipped |-> FALSE,
              song |-> [key |-> key, data |-> Join(chunks),
                        playlistId |-> progress.newPlaylistId,
                        chunks |-> chunks, metadata |-> sb1[key].metadata,
                        processed |-> sb1[key].processed]]
        ELSE [sb |-> sb1, skipped |-> FALSE, song |-> NoSong]

\* handleSongChunk(peerId, payload) up to its await: the buffer table after the
\* chunk is written, and the song handed to addSong, if any. The song record
\* also keeps the buffer it was built from (chunks, metadata, and the
\* processed flag as it was read at the guard).
HandleSongChunk(sb, progress, peerId, payload) ==
    LET key    == BufKey(peerId, payload.songIndex)
        sb0    == IF key \notin DOMAIN sb
                  THEN MapSet(sb, key, [chunks |-> NewArray(payload.totalChunks),
                                        totalChunks |-> payload.totalChunks,
                                        metadata |-> NoMeta, processed |-> FALSE])
                  ELSE sb
        chunks == ArraySet(sb0[key].chunks, payload.chunkIndex, payload.data)
        sb1    == [sb0 EXCEPT ![key].chunks = chunks]
        buffer == sb1[key]
        receivedChunks == Cardinality({k \in DOMAIN chunks : chunks[k] # Undefined})
    IN  IF receivedChunks = payload.totalChunks /\ buffer.metadata # NoMeta
        THEN IF buffer.processed
             THEN [sb |-> sb1, skipped |-> TRUE, song |-> NoSong]
             ELSE [sb |-> [sb1 EXCEPT ![key].processed = TRUE], skipped |-> FALSE,
                   song |-> [key |-> key, data |-> Join(chunks),
                             playlistId |-> progress.newPlaylistId,
                             chunks |-> chunks, metadata |-> buffer.metadata,
                             processed |-> buffer.processed]]
        ELSE [sb |-> sb1, skipped |-> FALSE, song |-> NoSong]

NotReported == -1

InitXferIdle ==
    /\ songChunksBuffer = EmptyMap
    /\ cloneProgress = [active |-> FALSE, current |-> 0, total |-> 0,
                        newPlaylistId |-> 0, sourcePeerId |-> ""]
    /\ playlists = 0
    /\ songs = <<>>
    /\ tasks = {}
    /\ reasm = <<>>
    /\ xfer = [t \in Transfers |-> [pl |-> 0, reported |-> NotReported, stored |-> 0,
                                      created |-> FALSE]]
    /\ skips = 0
    /\ gone = FALSE


InitXfer ==
    /\ inbox = [pending |-> AllMsgs, done |-> {}, dups |-> 0]
    /\ InitXferIdle

\* Songs of a playlist: getSongsForPlaylist(playlistId).length
SongsIn(playlistId) ==
    Cardinality({k \in 1 .. Len(songs) : songs[k].playlistId = playlistId})

\* dataHandler(peerId, data), up to the first await of the case taken
DataHandler(peerId, data) ==
    CASE data.type = "clone-start" ->
            \* await playlistService.addPlaylist(newPlaylistName)
            /\ tasks' = tasks \cup {[k |-> "addPlaylist", t |-> data.t,
                                     totalSongs |-> data.totalSongs]}
            /\ UNCHANGED <<songChunksBuffer, reasm, skips>>
      [] data.type = "clone-song-meta" ->
            /\ songChunksBuffer' = OnSongMeta(songChunksBuffer, peerId, data)
            /\ UNCHANGED <<tasks, reasm, skips>>
      [] data.type = "clone-song-chunk" ->
            LET r == HandleSongChunk(songChunksBuffer, cloneProgress, peerId, data)
            IN  /\ songChunksBuffer' = r.sb
                /\ skips' = IF r.skipped THEN skips + 1 ELSE skips
                /\ IF r.song # NoSong
                   THEN \* await playlistService.addSong(song)
                        /\ reasm' = Append(reasm, r.song)
                        /\ tasks' = tasks \cup {[k |-> "addSong", id |-> Len(reasm) + 1]}
                   ELSE UNCHANGED <<reasm, tasks>>
      [] data.type = "clone-complete" ->
            \* finalizeClone: await new Promise(resolve => setTimeout(resolve, 500))
            /\ tasks' = tasks \cup {[k |-> "finalizeWait", t |-> data.t]}
            /\ UNCHANGED <<songChunksBuffer, reasm, skips>>

\* An inbound message of the source peer reaches the data handler.
Deliver(m) ==
    /\ m \in inbox.pending
    /\ inbox' = [inbox EXCEPT !.pending = @ \ {m}, !.done = @ \cup {m}]
    /\ DataHandler(SrcPeer, m)
    /\ UNCHANGED <<cloneProgress, playlists, songs, xfer, gone>>

\* A chunk message that was delivered is delivered once more.
DeliverDuplicate(m) ==
    /\ m \in inbox.done
    /\ m.type = "clone-song-chunk"
    /\ inbox.dups < MaxDup
    /\ inbox' = [inbox EXCEPT !.dups = @ + 1]
    /\ DataHandler(SrcPeer, m)
    /\ UNCHANGED <<cloneProgress, playlists, songs, xfer, gone>>

\* case 'clone-start', after the await: the playlist exists, cloneProgress is
\* replaced.
AddPlaylistDone(task) ==
    /\ task \in tasks /\ task.k = "addPlaylist"
    /\ playlists' = playlists + 1
    /\ cloneProgress' = [active |-> TRUE, current |-> 0, total |-> task.totalSongs,
                         newPlaylistId |-> playlists + 1, sourcePeerId |-> SrcPeer]
    /\ xfer' = [xfer EXCEPT ![task.t].pl = playlists + 1]
    /\ tasks' = tasks \ {task}
    /\ UNCHANGED <<inbox, songChunksBuffer, songs, reasm, skips, gone>>

\* handleSongChunk after await playlistService.addSong(song): progress is
\* updated and the buffer of the key deleted.
AddSongDone(task) ==
    /\ task \in tasks /\ task.k = "addSong"
    /\ LET song == reasm[task.id]
       IN  /\ songs' = Append(songs, [playlistId |-> song.playlistId, data |-> song.data])
           /\ songChunksBuffer' = MapDelete(songChunksBuffer, song.key)
    /\ cloneProgress' = [cloneProgress EXCEPT !.current = @ + 1]
    /\ tasks' = tasks \ {task}
    /\ UNCHANGED <<inbox, playlists, reasm, xfer, skips, gone>>

\* addSong rejects: handleSongChunk ends there, the dispatcher logs the error.
AddSongFail(task) ==
    /\ task \in tasks /\ task.k = "addSong"
    /\ tasks' = tasks \ {task}
    /\ UNCHANGED <<inbox, songChunksBuffer, cloneProgress, playlists, songs, reasm,
                   xfer, skips, gone>>

\* finalizeClone after the 500 ms: the songs of cloneProgress.newPlaylistId
\* are read from storage.
FinalizeQuery(task) ==
    /\ task \in tasks /\ task.k = "finalizeWait"
    /\ tasks' = (tasks \ {task})
                \cup {[k |-> "finalizeReport", t |-> task.t,
                       songsCloned |-> SongsIn(cloneProgress.newPlaylistId),
                       stored |-> SongsIn(xfer[task.t].pl),
                       created |-> xfer[task.t].pl # 0]}
    /\ UNCHANGED <<inbox, songChunksBuffer, cloneProgress, playlists, songs, reasm,
                   xfer, skips, gone>>

\* finalizeClone after the query: the count is shown, the buffers cleared.
FinalizeReport(task) ==
    /\ task \in tasks /\ task.k = "finalizeReport"
    /\ cloneProgress' = [cloneProgress EXCEPT !.active = FALSE]
    /\ xfer' = [xfer EXCEPT ![task.t].reported = task.songsCloned,
                            ![task.t].stored = task.stored,
                            ![task.t].created = task.created]
    /\ songChunksBuffer' = EmptyMap
    /\ tasks' = tasks \ {task}
    /\ UNCHANGED <<inbox, playlists, songs, reasm, skips, gone>>

\* p2pService.onDisconnect of P2PView for the source peer: the peer counter
\* and the marker are updated; the transfer state is not touched.
OnDisconnect ==
    /\ ~gone
    /\ gone' = TRUE
    /\ UNCHANGED <<inbox, songChunksBuffer, cloneProgress, playlists, songs, tasks,
                   reasm, xfer, skips>>

----------------------------------------------------------------------------
(* The data handler dispatcher of App.vue *)

\* Handler functions the views register: every mount of a view creates a new
\* function, numbered here in the order of registration.
Handlers == 1 .. MaxHandlers
MsgIds   == 1 .. MaxMsgs

IdleDispatch == [pc |-> "idle", i |-> 0, h |-> 0, stable |-> {}]

\* p2pService.onData: null, a handler function set by the class's
\* addDataHandler, or the dispatcher installed by the shell.
NoHandler     == [kind |-> "null", h |-> 0]
Direct(h)     == [kind |-> "handler", h |-> h]
TheDispatcher == [kind |-> "dispatcher", h |-> 0]

\* shell: position of App.vue's onMounted ("unmounted", "init" while it awaits
\* p2pService.init(), "installed" past the assignment of onData); view: the
\* handler of the mounted view, 0 when no view is mounted; removed: the handlers
\* passed to removeDataHandler; seen: the messages the service has dispatched;
\* due[k], gone[k]: the handlers registered and not removed, and those
\* removed, when message k was dispatched. onConnect, onDisconnect: the
\* callbacks a call of p2pService.onConnect / onDisconnect runs, outermost
\* first: the number of a view instance for the closure its onMounted
\* assigned, which calls the callback it replaced, and 0 for the shell's;
\* conn, disc: whether a peer-connected / peer-disconnected event has occurred
\* and the callbacks the last one ran.
Mounting(shell, onData) ==
    [shell |-> shell, onData |-> onData, view |-> 0, removed |-> {}, seen |-> {},
     due |-> [k \in MsgIds |-> {}], gone |-> [k \in MsgIds |-> {}],
     onConnect |-> IF shell = "installed" THEN <<0>> ELSE <<>>,
     onDisconnect |-> <<>>,
     conn |-> [fired |-> FALSE, ran |-> <<>>],
     disc |-> [fired |-> FALSE, ran |-> <<>>]]

\* The shell's onMounted has run to its end.
InitDisp ==
    /\ dataHandlers = <<>>
    /\ registered = 0
    /\ disp = [k \in MsgIds |-> IdleDispatch]
    /\ dlog = [k \in MsgIds |-> <<>>]
    /\ mnt = Mounting("installed", TheDispatcher)

Range(f) == {f[x] : x \in DOMAIN f}

\* addDataHandler(handler): dataHandlers.push(handler)
AddDataHandler(handler) ==
    /\ handler = registered + 1
    /\ dataHandlers' = Append(dataHandlers, handler)
    /\ registered' = handler
    /\ UNCHANGED <<disp, dlog>>

\* dataHandlers.splice(index, 1)
Splice(hs, index) ==
    [j \in 1 .. (Len(hs) - 1) |-> IF j < index THEN hs[j] ELSE hs[j + 1]]

\* removeDataHandler(handler): indexOf, then splice
RemoveDataHandler(handler) ==
    /\ \E index \in 1 .. Len(dataHandlers) :
          /\ dataHandlers[index] = handler
          /\ dataHandlers' = Splice(dataHandlers, index)
    /\ disp' = [k \in MsgIds |-> [disp[k] EXCEPT !.stable = @ \ {handler}]]
    /\ UNCHANGED <<registered, dlog>>

RECURSIVE RunLoop(_, _, _, _)
\* for (const handler of dataHandlers) { try { await handler(...) } catch ... }
\* from iterator position i (counted from 0) to the next await, or to the
\* built-in request processing after the loop. The handlers in throwers throw
\* before their first await; the others return a promise that is awaited.
RunLoop(hs, i, throwers, log) ==
    IF i >= Len(hs)
    THEN [pc |-> "done", i |-> i, h |-> 0, log |-> Append(log, <<"builtin">>)]
    ELSE LET handler == hs[i + 1] IN
         IF handler \in throwers
         THEN RunLoop(hs, i + 1, throwers,
                      log \o << <<"call", handler>>, <<"caught", handler>> >>)
         ELSE [pc |-> "await", i |-> i, h |-> handler,
               log |-> Append(log, <<"call", handler>>)]

\* p2pService.onData(peerId, data) is called with inbound message k.
OnData(k) ==
    /\ disp[k].pc = "idle"
    /\ \E throwers \in SUBSET Handlers :
          LET r == RunLoop(dataHandlers, 0, throwers, <<>>)
          IN  /\ disp' = [disp EXCEPT ![k] = [pc |-> r.pc, i |-> r.i, h |-> r.h,
                                              stable |-> Range(dataHandlers)]]
              /\ dlog' = [dlog EXCEPT ![k] = r.log]
    /\ UNCHANGED <<dataHandlers, registered>>

\* The promise awaited by dispatch k settles (resolved, or rejected and
\* caught) and the loop goes on.
HandlerSettles(k) ==
    /\ disp[k].pc = "await"
    /\ \E how \in {"ret", "caught"}, throwers \in SUBSET Handlers :
          LET d == disp[k]
              r == RunLoop(dataHandlers, d.i + 1, throwers,
                           Append(dlog[k], <<how, d.h>>))
          IN  /\ disp' = [disp EXCEPT ![k] = [d EXCEPT !.pc = r.pc, !.i = r.i, !.h = r.h]]
              /\ dlog' = [dlog EXCEPT ![k] = r.log]
    /\ UNCHANGED <<dataHandlers, registered>>

\* Neither the shell nor a view has been mounted.
InitMount ==
    /\ dataHandlers = <<>>
    /\ registered = 0
    /\ disp = [k \in MsgIds |-> IdleDispatch]
    /\ dlog = [k \in MsgIds |-> <<>>]
    /\ mnt = Mounting("unmounted", NoHandler)

\* App.vue's onMounted starts and awaits p2pService.init().
ShellMounted ==
    /\ mnt.shell = "unmounted"
    /\ mnt' = [mnt EXCEPT !.shell = "init"]
    /\ UNCHANGED dispVars

\* init() has resolved: const dataHandlers = [], addDataHandler and
\* removeDataHandler are replaced on the instance, onConnect and onData are
\* assigned.
ShellInstalls ==
    /\ mnt.shell = "init"
    /\ mnt' = [mnt EXCEPT !.shell = "installed", !.onData = TheDispatcher,
                          !.onConnect = <<0>>]
    /\ dataHandlers' = <<>>
    /\ UNCHANGED <<registered, disp, dlog>>

\* P2PView's onMounted: p2pService.addDataHandler exists in every state (the
\* class defines it), so the view calls whichever is in place: the shell's
\* (push) or the class's (this.onData = handler). Then it replaces
\* p2pService.onConnect and onDisconnect by closures that call the callbacks
\* they replace.
ViewRegisters(handler) ==
    /\ mnt.view = 0
    /\ handler = registered + 1
    /\ IF mnt.shell = "installed"
       THEN /\ AddDataHandler(handler)
            /\ mnt' = [mnt EXCEPT !.view = handler,
                                  !.onConnect = <<handler>> \o @,
                                  !.onDisconnect = <<handler>> \o @]
       ELSE /\ mnt' = [mnt EXCEPT !.view = handler, !.onData = Direct(handler),
                                  !.onConnect = <<handler>> \o @,
                                  !.onDisconnect = <<handler>> \o @]
            /\ registered' = handler
            /\ UNCHANGED <<dataHandlers, disp, dlog>>

\* P2PView's onUnmounted: removeDataHandler(dataHandler), the shell's (indexOf,
\* splice) or the class's (if (this.onData === handler) this.onData = null).
\* onConnect and onDisconnect are left as they are.
ViewRemoves ==
    /\ mnt.view # 0
    /\ LET handler == mnt.view
           after   == [mnt EXCEPT !.view = 0, !.removed = @ \cup {handler}]
       IN  IF mnt.shell = "installed"
           THEN /\ mnt' = after
                /\ IF handler \in Range(dataHandlers)
                   THEN RemoveDataHandler(handler)
                   ELSE UNCHANGED dispVars
           ELSE /\ mnt' = [after EXCEPT !.onData = IF @ = Direct(handler)
                                                   THEN NoHandler ELSE @]
                /\ UNCHANGED dispVars

\* The service receives message k: if (this.onData) this.onData(from, payload)
Inbound(k) ==
    /\ k \notin mnt.seen
    /\ mnt' = [mnt EXCEPT !.seen = @ \cup {k},
                          !.due[k] = {mnt.view} \ {0},
                          !.gone[k] = mnt.removed]
    /\ IF mnt.onData = TheDispatcher
       THEN OnData(k)
       ELSE /\ disp' = [disp EXCEPT ![k] = [IdleDispatch EXCEPT !.pc = "done"]]
            /\ dlog' = [dlog EXCEPT ![k] =
                            IF mnt.onData = NoHandler THEN << <<"dropped">> >>
                            ELSE << <<"call", mnt.onData.h>> >>]
            /\ UNCHANGED <<dataHandlers, registered>>

\* peer.on('connect'): if (this.onConnect) this.onConnect(peerId). Every view
\* closure in the chain sends request-location to the peer and calls the
\* callback it replaced.
PeerConnected ==
    /\ mnt' = [mnt EXCEPT !.conn = [fired |-> TRUE, ran |-> mnt.onConnect]]
    /\ UNCHANGED dispVars

\* if (this.onDisconnect) this.onDisconnect(peerId): every view closure in the
\* chain lowers its counter, removes its marker and calls the callback it
\* replaced.
PeerDisconnected ==
    /\ mnt' = [mnt EXCEPT !.disc = [fired |-> TRUE, ran |-> mnt.onDisconnect]]
    /\ UNCHANGED dispVars

----------------------------------------------------------------------------
(* Sending side of a transfer: the 'request-clone' branch of App.vue's onData *)

\* Lengths of the encoded data of a stored song (song.data.length): empty, one
\* more than the relay chunk size, one more than the direct one.
SongLengths == {0, RELAY_CHUNK_SIZE + 1, DIRECT_CHUNK_SIZE + 1}

RECURSIVE SeqsUpTo(_, _)
\* The sequences over S of length at most n.
SeqsUpTo(S, n) ==
    IF n = 0 THEN {<<>>}
    ELSE LET shorter == SeqsUpTo(S, n - 1)
         IN  shorter \cup {Append(q, x) : q \in {r \in shorter : Len(r) = n - 1}, x \in S}

\* Playlists the sender may hold: the data lengths of the songs, in order.
Playlists == SeqsUpTo(SongLengths, NumItems)

TotalChunksFloor(length, chunkSize) == length \div chunkSize
\* Math.ceil(dataStr.length / CHUNK_SIZE)
TotalChunks(length, chunkSize) == (length + chunkSize - 1) \div chunkSize

\* The messages of the transfer. A chunk stands for dataStr.substring(start, end).
SentStart(n)  == [type |-> "clone-start", totalSongs |-> n]
SentMeta(i, tc) == [type |-> "clone-song-meta", songIndex |-> i, totalChunks |-> tc]
SentChunk(i, c, tc, from, to) ==
    [type |-> "clone-song-chunk", songIndex |-> i, chunkIndex |-> c,
     totalChunks |-> tc, start |-> from, end |-> to]
SentComplete  == [type |-> "clone-complete"]
SentError     == [type |-> "clone-error"]

\* The chunk message of song i (counted from 0), chunk c.
ChunkOf(st, i, c) ==
    LET length == st.playlist[i + 1]
        start  == c * st.chunkSize
        end    == IF start + st.chunkSize < length THEN start + st.chunkSize ELSE length
    IN  SentChunk(i, c, TotalChunks(length, st.chunkSize), start, end)

RECURSIVE BeginSong(_, _)
\* The outer loop from song i up to the next pacing delay: the metadata of the
\* song and its first chunk; a song without chunks is followed at once by the
\* next one, the last one by clone-complete.
BeginSong(st, i) ==
    IF i >= Len(st.playlist)
    THEN [st |-> [st EXCEPT !.pc = "done"], out |-> <<SentComplete>>]
    ELSE LET tc   == TotalChunks(st.playlist[i + 1], st.chunkSize)
             meta == SentMeta(i, tc)
         IN  IF tc > 0
             THEN [st  |-> [st EXCEPT !.pc = "pacing", !.i = i, !.c = 0],
                   out |-> <<meta, ChunkOf(st, i, 0)>>]
             ELSE LET r == BeginSong(st, i + 1)
                  IN  [st |-> r.st, out |-> <<meta>> \o r.out]

\* tornAt: how many messages the request had emitted when the session of its
\* peer was torn down; -1 while it has not been.
IdleSend == [pc |-> "idle", playlist |-> <<>>, chunkSize |-> 0, i |-> 0, c |-> 0,
             tornAt |-> -1]

\* From the resolution of getPlaylistWithSongs to the first pacing delay.
BeginClone(playlist, isDirect) ==
    IF Len(playlist) = 0
    THEN [st |-> [IdleSend EXCEPT !.pc = "done"], out |-> <<SentError>>]
    ELSE LET st0 == [pc |-> "pacing", playlist |-> playlist,
                     chunkSize |-> IF isDirect THEN DIRECT_CHUNK_SIZE
                                   ELSE RELAY_CHUNK_SIZE,
                     i |-> 0, c |-> 0, tornAt |-> -1]
             r   == BeginSong(st0, 0)
         IN  [st |-> r.st, out |-> <<SentStart(Len(playlist))>> \o r.out]

AfterPacingMetaLast(st) ==
    LET tc == TotalChunks(st.playlist[st.i + 1], st.chunkSize) IN
    IF st.c + 1 < tc
    THEN [st |-> [st EXCEPT !.c = st.c + 1], out |-> <<ChunkOf(st, st.i, st.c + 1)>>]
    ELSE IF st.i + 1 < Len(st.playlist)
    THEN [st  |-> [st EXCEPT !.i = st.i + 1, !.c = 0],
          out |-> <<ChunkOf(st, st.i + 1, 0),
                    SentMeta(st.i + 1, TotalChunks(st.playlist[st.i + 2], st.chunkSize))>>]
    ELSE [st |-> [st EXCEPT !.pc = "done"], out |-> <<SentComplete>>]
\* From the end of a pacing delay to the next one, or to the end of the
\* handler: chunkIndex++, then the next chunk, the next song, or clone-complete.
AfterPacing(st) ==
    LET tc == TotalChunks(st.playlist[st.i + 1], st.chunkSize) IN
    IF st.c + 1 < tc
    THEN [st |-> [st EXCEPT !.c = st.c + 1], out |-> <<ChunkOf(st, st.i, st.c + 1)>>]
    ELSE BeginSong(st, st.i + 1)

\* While the handler of request t waits in a pacing delay, the leave event of
\* the requesting peer is handled: the session is destroyed and deleted from
\* the table. The handler holds no reference to the session and is not told:
\* sendTo finds no entry and publishes on the rendezvous channel.
SessionTornDown(t) ==
    /\ send[t].pc = "pacing"
    /\ send[t].tornAt < 0
    /\ send' = [send EXCEPT ![t].tornAt = Len(emitted[t])]
    /\ UNCHANGED emitted

InitSend ==
    /\ send = [t \in Transfers |-> IdleSend]
    /\ emitted = [t \in Transfers |-> <<>>]

\* A 'request-clone' message is handled for a playlist of the sender.
CloneRequest(t, playlist, isDirect) ==
    /\ send[t].pc = "idle"
    /\ LET r == BeginClone(playlist, isDirect)
       IN  /\ send' = [send EXCEPT ![t] = r.st]
           /\ emitted' = [emitted EXCEPT ![t] = r.out]

\* The 15 ms delay after a chunk of request t is over.
PacingDone(t) ==
    /\ send[t].pc = "pacing"
    /\ LET r == AfterPacing(send[t])
       IN  /\ send' = [send EXCEPT ![t] = r.st]
           /\ emitted' = [emitted EXCEPT ![t] = emitted[t] \o r.out]

OnCloneErrorKeepBuffers(sb, cp) == [sb |-> sb, cp |-> [cp EXCEPT !.active = FALSE]]
\* case 'clone-error': cloneProgress.value.active = false; alert(...);
\* songChunksBuffer.clear()
OnCloneError(sb, cp) == [sb |-> EmptyMap, cp |-> [cp EXCEPT !.active = FALSE]]

\* The clone-error message of the source peer is handled by dataHandler.
DeliverError ==
    /\ SentError \in inbox.pending
    /\ inbox' = [inbox EXCEPT !.pending = @ \ {SentError}, !.done = @ \cup {SentError}]
    /\ LET r == OnCloneError(songChunksBuffer, cloneProgress)
       IN  songChunksBuffer' = r.sb /\ cloneProgress' = r.cp
    /\ UNCHANGED <<playlists, songs, tasks, reasm, xfer, skips, gone>>

----------------------------------------------------------------------------
(* The map view: the periodic resend of request-location (P2PView.vue) *)

\* if (attempts > 3)
MaxAttempts == 3

\* getAllPeerIds(): the keys of the session table and the known-peer set
AllPeerIds(n) == (DOMAIN peers[n]) \cup onlineIds[n]

\* pc: "off" no view, "waiting" in the 3 s delay of onMounted, "set" past it;
\* timer: locationInterval is armed; attempts: the counter of the timer
\* callback; markers: peerMarkers.size > 0; resends: rounds of request-location
\* sent by the timer callback; mounted: the view has not been unmounted.
InitView ==
    loc = [pc |-> "off", n |-> 0, timer |-> FALSE, attempts |-> 0,
           markers |-> FALSE, resends |-> 0, mounted |-> FALSE]

LocationTickNoCap(v, hasPeers) ==
    LET attempts == v.attempts + 1 IN
    IF ~v.markers /\ hasPeers
    THEN [v EXCEPT !.attempts = attempts, !.resends = v.resends + 1]
    ELSE IF v.markers
    THEN [v EXCEPT !.attempts = attempts, !.timer = FALSE]
    ELSE [v EXCEPT !.attempts = attempts]
\* The callback of setInterval(..., 5000): attempts++; past the cap the timer
\* is cleared; else with no marker and some peer a round is sent; else with a
\* marker the timer is cleared.
LocationTick(v, hasPeers) ==
    LET attempts == v.attempts + 1 IN
    IF attempts > MaxAttempts
    THEN [v EXCEPT !.attempts = attempts, !.timer = FALSE]
    ELSE IF ~v.markers /\ hasPeers
    THEN [v EXCEPT !.attempts = attempts, !.resends = v.resends + 1]
    ELSE IF v.markers
    THEN [v EXCEPT !.attempts = attempts, !.timer = FALSE]
    ELSE [v EXCEPT !.attempts = attempts]

\* The view of node n is mounted: onMounted runs up to its 3 s delay.
ViewMount(n) ==
    /\ loc.pc = "off"
    /\ loc' = [loc EXCEPT !.pc = "waiting", !.n = n, !.mounted = TRUE]

\* The 3 s delay is over: the first request-location round is sent and the
\* timer is armed with attempts = 0, whether or not the view is still mounted.
ViewSetup ==
    /\ loc.pc = "waiting"
    /\ loc' = [loc EXCEPT !.pc = "set", !.timer = TRUE]

\* The timer fires.
ViewTick ==
    /\ loc.timer
    /\ loc' = LocationTick(loc, AllPeerIds(loc.n) # {})

\* A 'location' message of a peer puts a marker on the map; onDisconnect
\* removes the marker of a peer.
ViewMarker(present) ==
    /\ loc.pc # "off" /\ loc.markers # present
    /\ present => AllPeerIds(loc.n) # {}
    /\ loc' = [loc EXCEPT !.markers = present]

\* onUnmounted: if (locationInterval) clearInterval(locationInterval)
ViewUnmount ==
    /\ loc.mounted
    /\ loc' = [loc EXCEPT !.mounted = FALSE, !.timer = FALSE]

----------------------------------------------------------------------------
(* Specifications *)

InboxIdle == inbox = [pending |-> {}, done |-> {}, dups |-> 0]

Init == InitNet /\ InboxIdle /\ InitXferIdle /\ InitDisp /\ InitSend /\ InitView

\* The transfer and dispatch components are idle.
NetOnly == UNCHANGED <<xferVars, dispVars, sendVars, viewVars, mountVars>>

\* No call of the application is on the stack: the event loop takes the next
\* event.
Loop == call = NoCall /\ NetOnly

Next ==
    \/ \E n \in Nodes : Loop /\ Attach(n)
    \/ \E n \in Nodes : Loop /\ EnterAck(n)
    \/ \E n \in Nodes : Loop /\ SnapshotFetch(n)
    \/ \E n \in Nodes : Loop /\ SnapshotApply(n)
    \/ \E n \in Nodes : Loop /\ RefreshFetch(n)
    \/ \E n \in Nodes : Loop /\ RefreshApply(n)
    \/ \E n \in Nodes : Loop /\ PresenceEvent(n)
    \/ \E n \in Nodes : Loop /\ SignalEvent(n)
    \/ \E n \in Nodes, p \in Nodes : Loop /\ EmitOffer(n, p)
    \/ \E n \in Nodes, p \in Nodes : Loop /\ EmitAnswer(n, p)
    \/ \E n \in Nodes, p \in Nodes : Loop /\ Connect(n, p)
    \/ \E n \in Nodes, p \in Nodes, kind \in {"close", "error"} :
          Loop /\ PeerFail(n, p, kind)
    \/ \E n \in Nodes : Loop /\ PresenceLeave(n)
    \/ \E n \in Nodes : Loop /\ PresenceRejoin(n)
    \/ \E n \in Nodes, msg \in StrayMsgs : Loop /\ StraySignal(n, msg)
    \/ \E n \in Nodes, p \in Nodes, data \in DataMsgs :
          NetOnly /\ SendTo(n, p, data)
    \/ \E n \in Nodes, p \in Nodes, kind \in {"request-clone", "request-song"} :
          NetOnly /\ RequestTransfer(n, p, kind)
    \/ NetOnly /\ CallReturns

Spec == Init /\ [][Next]_vars

\* Two nodes join; no leave, close or error occurs.
NextLive ==
    \/ \E n \in Nodes : Loop /\ Attach(n)
    \/ \E n \in Nodes : Loop /\ EnterAck(n)
    \/ \E n \in Nodes : Loop /\ SnapshotFetch(n)
    \/ \E n \in Nodes : Loop /\ SnapshotApply(n)
    \/ \E n \in Nodes : Loop /\ RefreshFetch(n)
    \/ \E n \in Nodes : Loop /\ RefreshApply(n)
    \/ \E n \in Nodes : Loop /\ PresenceEvent(n)
    \/ \E n \in Nodes : Loop /\ SignalEvent(n)
    \/ \E n \in Nodes, p \in Nodes : Loop /\ EmitOffer(n, p)
    \/ \E n \in Nodes, p \in Nodes : Loop /\ EmitAnswer(n, p)
    \/ \E n \in Nodes, p \in Nodes : Loop /\ Connect(n, p)

\* Nodes join, leave and re-enter; presence events reach the subscribers one
\* per task or a leave together with the enter behind it.
NextStale ==
    \/ \E n \in Nodes : Loop /\ Attach(n)
    \/ \E n \in Nodes : Loop /\ EnterAck(n)
    \/ \E n \in Nodes : Loop /\ SnapshotFetch(n)
    \/ \E n \in Nodes : Loop /\ SnapshotApply(n)
    \/ \E n \in Nodes : Loop /\ RefreshFetch(n)
    \/ \E n \in Nodes : Loop /\ RefreshApply(n)
    \/ \E n \in Nodes : Loop /\ PresenceEvent(n)
    \/ \E n \in Nodes : Loop /\ PresenceBatch(n)
    \/ \E n \in Nodes : Loop /\ SignalEvent(n)
    \/ \E n \in Nodes, p \in Nodes : Loop /\ EmitOffer(n, p)
    \/ \E n \in Nodes, p \in Nodes : Loop /\ EmitAnswer(n, p)
    \/ \E n \in Nodes, p \in Nodes : Loop /\ Connect(n, p)
    \/ \E n \in Nodes : Loop /\ PresenceLeave(n)
    \/ \E n \in Nodes : Loop /\ PresenceRejoin(n)

SpecStale == Init /\ [][NextStale]_vars

\* Nodes join while relay and broadcast messages of every client, their own
\* included, reach their subscribers.
NextSelf ==
    \/ \E n \in Nodes : Loop /\ Attach(n)
    \/ \E n \in Nodes : Loop /\ EnterAck(n)
    \/ \E n \in Nodes : Loop /\ SnapshotFetch(n)
    \/ \E n \in Nodes : Loop /\ SnapshotApply(n)
    \/ \E n \in Nodes : Loop /\ RefreshFetch(n)
    \/ \E n \in Nodes : Loop /\ RefreshApply(n)
    \/ \E n \in Nodes : Loop /\ PresenceEvent(n)
    \/ \E n \in Nodes : Loop /\ SignalEvent(n)
    \/ \E n \in Nodes, p \in Nodes : Loop /\ EmitOffer(n, p)
    \/ \E n \in Nodes, p \in Nodes : Loop /\ EmitAnswer(n, p)
    \/ \E n \in Nodes, p \in Nodes : Loop /\ Connect(n, p)
    \/ \E n \in Nodes, from \in Clients, to \in Clients :
          NetOnly /\ ReceiveRelay(n, "data", [to |-> to, from |-> from])
    \/ \E n \in Nodes, from \in Clients :
          NetOnly /\ ReceiveRelay(n, "broadcast", [from |-> from])
    \/ NetOnly /\ CallReturns

SpecSelf == Init /\ [][NextSelf]_vars

\* Nodes join and a node may tear its service down.
NextTeardown ==
    \/ \E n \in Nodes : Loop /\ Attach(n)
    \/ \E n \in Nodes : Loop /\ EnterAck(n)
    \/ \E n \in Nodes : Loop /\ SnapshotFetch(n)
    \/ \E n \in Nodes : Loop /\ SnapshotApply(n)
    \/ \E n \in Nodes : Loop /\ RefreshFetch(n)
    \/ \E n \in Nodes : Loop /\ RefreshApply(n)
    \/ \E n \in Nodes : Loop /\ PresenceEvent(n)
    \/ \E n \in Nodes : Loop /\ SignalEvent(n)
    \/ \E n \in Nodes, p \in Nodes : Loop /\ EmitOffer(n, p)
    \/ \E n \in Nodes, p \in Nodes : Loop /\ EmitAnswer(n, p)
    \/ \E n \in Nodes, p \in Nodes : Loop /\ Connect(n, p)
    \/ \E n \in Nodes : Loop /\ DestroyCall(n)
    \/ \E n \in Nodes : Loop /\ DestroyDone(n)

SpecTeardown == Init /\ [][NextTeardown]_vars

\* Two nodes join while the application sends and broadcasts; the rendezvous
\* service may refuse a publish.
NextIo ==
    \/ \E n \in Nodes : Loop /\ Attach(n)
    \/ \E n \in Nodes : Loop /\ EnterAck(n)
    \/ \E n \in Nodes : Loop /\ SnapshotFetch(n)
    \/ \E n \in Nodes : Loop /\ SnapshotApply(n)
    \/ \E n \in Nodes : Loop /\ RefreshFetch(n)
    \/ \E n \in Nodes : Loop /\ RefreshApply(n)
    \/ \E n \in Nodes : Loop /\ PresenceEvent(n)
    \/ \E n \in Nodes : Loop /\ SignalEvent(n)
    \/ \E n \in Nodes, p \in Nodes : Loop /\ EmitOffer(n, p)
    \/ \E n \in Nodes, p \in Nodes : Loop /\ EmitAnswer(n, p)
    \/ \E n \in Nodes, p \in Nodes : Loop /\ Connect(n, p)
    \/ \E n \in Nodes, p \in Nodes : Loop /\ Timeout(n, p)
    \/ \E n \in Nodes, p \in Nodes, data \in DataMsgs, publishFails \in BOOLEAN :
          NetOnly /\ SendToCall(n, p, data, publishFails)
    \/ \E n \in Nodes, data \in DataMsgs, publishFails \in BOOLEAN :
          NetOnly /\ BroadcastCall(n, data, publishFails)
    \/ \E n \in Nodes, p \in Nodes, topic \in InboundTopics,
            shape \in {"undecodable", "noData", "noAddress", "noPayload",
                       "noType", "typeOnly", "noSignal"} :
          NetOnly /\ ReceiveMalformed(n, p, topic, shape)
    \/ NetOnly /\ CallReturns

SpecIo == Init /\ [][NextIo]_vars

\* Two nodes join while the map view of one of them is mounted.
ViewOnly == UNCHANGED <<netVars, xferVars, dispVars, sendVars, mountVars>>

NextView ==
    \/ \E n \in Nodes : Loop /\ Attach(n)
    \/ \E n \in Nodes : Loop /\ EnterAck(n)
    \/ \E n \in Nodes : Loop /\ SnapshotFetch(n)
    \/ \E n \in Nodes : Loop /\ SnapshotApply(n)
    \/ \E n \in Nodes : Loop /\ RefreshFetch(n)
    \/ \E n \in Nodes : Loop /\ RefreshApply(n)
    \/ \E n \in Nodes : Loop /\ PresenceEvent(n)
    \/ \E n \in Nodes : Loop /\ SignalEvent(n)
    \/ \E n \in Nodes, p \in Nodes : Loop /\ EmitOffer(n, p)
    \/ \E n \in Nodes, p \in Nodes : Loop /\ EmitAnswer(n, p)
    \/ \E n \in Nodes, p \in Nodes : Loop /\ Connect(n, p)
    \/ \E n \in Nodes : ViewOnly /\ ViewMount(n)
    \/ ViewOnly /\ ViewSetup
    \/ ViewOnly /\ ViewTick
    \/ \E present \in BOOLEAN : ViewOnly /\ ViewMarker(present)
    \/ ViewOnly /\ ViewUnmount

SpecView == Init /\ [][NextView]_vars

\* Every awaited promise of init() resolves, every published event and signal
\* is delivered, a handle emits its signal, and a negotiated channel opens.
FairLive ==
    /\ \A n \in Nodes :
          /\ WF_vars(Loop /\ Attach(n))
          /\ WF_vars(Loop /\ EnterAck(n))
          /\ WF_vars(Loop /\ SnapshotFetch(n))
          /\ WF_vars(Loop /\ SnapshotApply(n))
          /\ WF_vars(Loop /\ RefreshApply(n))
          /\ WF_vars(Loop /\ PresenceEvent(n))
          /\ WF_vars(Loop /\ SignalEvent(n))
    /\ \A n \in Nodes, p \in Nodes :
          /\ WF_vars(Loop /\ EmitOffer(n, p))
          /\ WF_vars(Loop /\ EmitAnswer(n, p))
          /\ WF_vars(Loop /\ Connect(n, p))

SpecLive == Init /\ [][NextLive]_vars /\ FairLive

\* As SpecLive, and the timer of setInterval(refresh, 10000) fires whenever no
\* refresh is under way: nothing but destroy() clears it.
SpecPoll ==
    /\ Init /\ [][NextLive]_vars /\ FairLive
    /\ \A n \in Nodes : WF_vars(Loop /\ RefreshFetch(n))

\* The remote side of a transfer is the only source of events.
XferOnly == UNCHANGED <<netVars, dispVars, sendVars, viewVars, mountVars>>

NextXfer ==
    \/ \E m \in AllMsgs : XferOnly /\ Deliver(m)
    \/ \E m \in AllMsgs : XferOnly /\ DeliverDuplicate(m)
    \/ \E task \in tasks : XferOnly /\ AddPlaylistDone(task)
    \/ \E task \in tasks : XferOnly /\ AddSongDone(task)
    \/ \E task \in tasks : XferOnly /\ AddSongFail(task)
    \/ \E task \in tasks : XferOnly /\ FinalizeQuery(task)
    \/ \E task \in tasks : XferOnly /\ FinalizeReport(task)
    \/ XferOnly /\ OnDisconnect

\* The view is mounted and the messages of the source peer are on their way.
InitTransfer == InitNet /\ InitXfer /\ InitDisp /\ InitSend /\ InitView

SpecXfer == InitTransfer /\ [][NextXfer]_vars

\* A transfer is in progress (its clone-start was handled) and the messages of
\* one item arrive, chunk messages with odd fields among them.
InitOdd ==
    /\ InitNet /\ InitDisp /\ InitSend /\ InitView
    /\ inbox = [pending |-> OddMsgs \cup {SentError}, done |-> {}, dups |-> 0]
    /\ songChunksBuffer = EmptyMap
    /\ cloneProgress = [active |-> TRUE, current |-> 0, total |-> 1,
                        newPlaylistId |-> 1, sourcePeerId |-> SrcPeer]
    /\ playlists = 1
    /\ songs = <<>>
    /\ tasks = {}
    /\ reasm = <<>>
    /\ xfer = [t \in Transfers |-> [pl |-> IF t = 1 THEN 1 ELSE 0,
                                      reported |-> NotReported, stored |-> 0,
                                      created |-> FALSE]]
    /\ skips = 0
    /\ gone = FALSE

NextOdd ==
    \/ \E m \in OddMsgs : XferOnly /\ Deliver(m)
    \/ \E task \in tasks : XferOnly /\ AddSongDone(task)
    \/ \E task \in tasks : XferOnly /\ AddSongFail(task)
    \/ XferOnly /\ DeliverError

SpecOdd == InitOdd /\ [][NextOdd]_vars

\* Clone requests are answered, their handlers interleaving at the delays.
SendOnly == UNCHANGED <<netVars, xferVars, dispVars, viewVars, mountVars>>

NextSend ==
    \/ \E t \in Transfers, playlist \in Playlists, isDirect \in BOOLEAN :
          SendOnly /\ CloneRequest(t, playlist, isDirect)
    \/ \E t \in Transfers : SendOnly /\ PacingDone(t)

SpecSend == Init /\ [][NextSend]_vars

\* Data lengths around the multiples of the two chunk sizes.
SplitLengths ==
    {1} \cup UNION {{size - 1, size, size + 1, 2 * size, 2 * size + 1} :
                       size \in {DIRECT_CHUNK_SIZE, RELAY_CHUNK_SIZE}}

\* Each request has been answered for a playlist of one song.
InitSplit ==
    /\ InitNet /\ InboxIdle /\ InitXferIdle /\ InitDisp /\ InitView
    /\ \E lengths \in [Transfers -> SplitLengths], direct \in [Transfers -> BOOLEAN] :
          /\ send = [t \in Transfers |-> BeginClone(<<lengths[t]>>, direct[t]).st]
          /\ emitted = [t \in Transfers |-> BeginClone(<<lengths[t]>>, direct[t]).out]

NextSplit ==
    \/ \E t \in Transfers : SendOnly /\ PacingDone(t)

SpecSplit == InitSplit /\ [][NextSplit]_vars

\* What the data handler of the requesting peer is called with for message m
\* of request t. The text of chunk c of song i of the playlist of request t is
\* the one-piece sequence <<100 * t + 10 * (i + 1) + c>>; the two requests
\* name different playlists.
OnWire(t, m) ==
    CASE m.type = "clone-start" ->
            [type |-> "clone-start", t |-> t, totalSongs |-> m.totalSongs]
      [] m.type = "clone-song-meta" -> m
      [] m.type = "clone-song-chunk" ->
            [type |-> "clone-song-chunk", songIndex |-> m.songIndex,
             chunkIndex |-> m.chunkIndex, totalChunks |-> m.totalChunks,
             data |-> <<100 * t + 10 * (m.songIndex + 1) + m.chunkIndex>>]
      [] m.type = "clone-complete" -> CompleteMsg(t)

\* The next message request t has emitted reaches dataHandler: the messages of
\* one request arrive in the order sent, those of two requests interleave.
Receive(t) ==
    /\ inbox.read[t] < Len(emitted[t])
    /\ inbox' = [inbox EXCEPT !.read[t] = @ + 1]
    /\ DataHandler(SrcPeer, OnWire(t, emitted[t][inbox.read[t] + 1]))
    /\ UNCHANGED <<cloneProgress, playlists, songs, xfer, gone>>

\* The source peer has begun to answer two clone requests of the view, each
\* for a playlist of one song of two or three relay chunks.
InitMix ==
    /\ InitNet /\ InitXferIdle /\ InitDisp /\ InitView
    /\ inbox = [pending |-> {}, done |-> {}, dups |-> 0,
                read |-> [t \in Transfers |-> 0]]
    /\ \E lengths \in [Transfers -> {RELAY_CHUNK_SIZE + 1, 2 * RELAY_CHUNK_SIZE + 1}] :
          /\ send = [t \in Transfers |-> BeginClone(<<lengths[t]>>, FALSE).st]
          /\ emitted = [t \in Transfers |-> BeginClone(<<lengths[t]>>, FALSE).out]

NextMix ==
    \/ \E t \in Transfers : SendOnly /\ PacingDone(t)
    \/ \E t \in Transfers : XferOnly /\ Receive(t)
    \/ \E task \in tasks : XferOnly /\ AddPlaylistDone(task)
    \/ \E task \in tasks : XferOnly /\ AddSongDone(task)
    \/ \E task \in tasks : XferOnly /\ AddSongFail(task)
    \/ \E task \in tasks : XferOnly /\ FinalizeQuery(task)
    \/ \E task \in tasks : XferOnly /\ FinalizeReport(task)

SpecMix == InitMix /\ [][NextMix]_vars

\* A message of another peer than the source of the clone reaches dataHandler.
DeliverFrom(peerId, m) ==
    /\ m \in inbox.other
    /\ inbox' = [inbox EXCEPT !.other = @ \ {m}]
    /\ DataHandler(peerId, m)
    /\ UNCHANGED <<cloneProgress, playlists, songs, xfer, gone>>

\* A clone from the source peer is in progress and ends with clone-complete
\* or clone-error, while a second peer sends the items of a transfer of its
\* own.
InitPeers ==
    /\ InitNet /\ InitDisp /\ InitSend /\ InitView
    /\ inbox = [pending |-> {CompleteMsg(1), SentError}, done |-> {}, dups |-> 0,
                other |-> {MetaMsg(i) : i \in Items}
                          \cup {ChunkMsg(i, c) : i \in Items, c \in ChunkIdx}]
    /\ songChunksBuffer = EmptyMap
    /\ cloneProgress = [active |-> TRUE, current |-> 0, total |-> 1,
                        newPlaylistId |-> 1, sourcePeerId |-> SrcPeer]
    /\ playlists = 1
    /\ songs = <<>>
    /\ tasks = {}
    /\ reasm = <<>>
    /\ xfer = [t \in Transfers |-> [pl |-> IF t = 1 THEN 1 ELSE 0,
                                      reported |-> NotReported, stored |-> 0,
                                      created |-> FALSE]]
    /\ skips = 0
    /\ gone = FALSE

NextPeers ==
    \/ \E m \in {CompleteMsg(1)} : XferOnly /\ Deliver(m)
    \/ XferOnly /\ DeliverError
    \/ \E m \in AllMsgs : XferOnly /\ DeliverFrom("user_other", m)
    \/ \E task \in tasks : XferOnly /\ AddSongDone(task)
    \/ \E task \in tasks : XferOnly /\ AddSongFail(task)
    \/ \E task \in tasks : XferOnly /\ FinalizeQuery(task)
    \/ \E task \in tasks : XferOnly /\ FinalizeReport(task)

SpecPeers == InitPeers /\ [][NextPeers]_vars

\* As SpecSend, and the requesting peer may leave during a transfer.
NextCancel ==
    \/ \E t \in Transfers, playlist \in Playlists, isDirect \in BOOLEAN :
          SendOnly /\ CloneRequest(t, playlist, isDirect)
    \/ \E t \in Transfers : SendOnly /\ PacingDone(t)
    \/ \E t \in Transfers : SendOnly /\ SessionTornDown(t)

SpecCancel == Init /\ [][NextCancel]_vars

\* Views mount and unmount while messages are dispatched.
DispOnly == UNCHANGED <<netVars, xferVars, sendVars, viewVars, mountVars>>

NextDisp ==
    \/ \E handler \in Handlers : DispOnly /\ AddDataHandler(handler)
    \/ \E handler \in Handlers : DispOnly /\ RemoveDataHandler(handler)
    \/ \E k \in MsgIds : DispOnly /\ OnData(k)
    \/ \E k \in MsgIds : DispOnly /\ HandlerSettles(k)

SpecDisp == Init /\ [][NextDisp]_vars

\* The shell and the view mount in any order while messages arrive.
MountOnly == UNCHANGED <<netVars, xferVars, sendVars, viewVars>>

NextMount ==
    \/ MountOnly /\ ShellMounted
    \/ MountOnly /\ ShellInstalls
    \/ \E handler \in Handlers : MountOnly /\ ViewRegisters(handler)
    \/ MountOnly /\ ViewRemoves
    \/ \E k \in MsgIds : MountOnly /\ Inbound(k)
    \/ MountOnly /\ PeerConnected
    \/ MountOnly /\ PeerDisconnected
    \/ \E k \in MsgIds : DispOnly /\ HandlerSettles(k)

InitMounting == InitNet /\ InboxIdle /\ InitXferIdle /\ InitMount /\ InitSend /\ InitView

SpecMount == InitMounting /\ [][NextMount]_vars

----------------------------------------------------------------------------
(* Properties *)

\* Node n holds a session toward p.
HasSession(n, p) == p \in DOMAIN peers[n]

\* C1 (glare avoidance): every session a node holds toward a peer was created
\* with the initiator role exactly when the node's identifier is the greater
\* of the two, whichever path created it (enter event, presence snapshot,
\* refresh, inbound offer); so of two nodes at most one holds an initiator
\* session toward the other.
C1_GlareAvoidance ==
    /\ \A n \in Nodes : \A p \in DOMAIN peers[n] : peers[n][p].init = (n > p)
    /\ \A a \in Nodes, b \in Nodes :
          (a # b /\ HasSession(a, b) /\ HasSession(b, a))
             => ~(peers[a][b].init /\ peers[b][a].init)

\* Both nodes hold a session toward each other, the responder's one fed with
\* the initiator's offer.
C1_Witness ==
    /\ HasSession(1, 2) /\ HasSession(2, 1)
    /\ peers[2][1].init /\ ~peers[1][2].init
    /\ peers[1][2].st = "gotoffer" /\ peers[1][2].rh = peers[2][1].h

\* Indexes of the addSong calls made for item i of the source peer.
ReasmOf(i) == {k \in 1 .. Len(reasm) : reasm[k].key = BufKey(SrcPeer, i)}

\* The payload of item i when metadata comes first and the chunks in order.
InOrderPayload(i) == Join([k \in 1 .. ChunksPerItem |-> ChunkData(i, k - 1)])

\* The metadata message and every chunk message of item i have been handled.
ItemDelivered(i) ==
    /\ MetaMsg(i) \in inbox.done
    /\ \A c \in ChunkIdx : ChunkMsg(i, c) \in inbox.done

\* C2 (order-independence of reassembly): once the metadata message and all
\* chunk messages of an item have been handled, each once, in whatever order,
\* and the transfer has not been finalized, the item has been reassembled
\* exactly once and its payload is that of in-order delivery.
C2_OrderIndependence ==
    \A i \in Items :
        (ItemDelivered(i) /\ inbox.dups = 0 /\ CompleteMsg(1) \notin inbox.done)
           => /\ Cardinality(ReasmOf(i)) = 1
              /\ \A k \in ReasmOf(i) : reasm[k].data = InOrderPayload(i)

\* C3 (reassembly idempotence): an item of the source peer is handed to
\* addSong at most once, duplicate chunk messages included.
C3_ReassemblyOnce ==
    \A i \in Items : Cardinality(ReasmOf(i)) <= 1

\* A duplicate of the completing chunk was turned away while the storage
\* write of the only reassembly made so far was still awaited.
C3_Witness ==
    /\ skips > 0
    /\ Len(reasm) = 1
    /\ \E task \in tasks : task.k = "addSong" /\ task.id = 1

C5_PeerGoneCleanup ==
    gone => \A key \in DOMAIN songChunksBuffer : key[1] # SrcPeer

\* The two nodes hold connected sessions toward each other.
BothConnected ==
    /\ HasSession(1, 2) /\ peers[1][2].connected
    /\ HasSession(2, 1) /\ peers[2][1].connected

\* C6 (two-peer connection liveness): when both nodes join and negotiation
\* succeeds once offer and answer are exchanged, eventually both sessions are
\* connected and exactly one of them was created as initiator.
C6_EventuallyConnected ==
    <>(BothConnected /\ (peers[1][2].init # peers[2][1].init))

\* Both sessions are connected, one of them the initiator's.
C6_Witness ==
    /\ BothConnected
    /\ peers[2][1].init /\ ~peers[1][2].init
    /\ faults = 0

\* C7 (authoritative final count): the count reported at the end of a
\* transfer whose playlist was created is the number of songs stored in that
\* playlist.
C7_AuthoritativeCount ==
    \A t \in Transfers :
        (xfer[t].reported # NotReported /\ xfer[t].created)
           => xfer[t].reported = xfer[t].stored

\* C8 (chunk size selection): isDirectConnected is true exactly when a session
\* for the peer exists and is connected; a clone or single-song transfer cuts
\* 64 KB chunks when it is true and 30 KB chunks when it is false.
C8_ChunkSizeSelection ==
    call.op \in {"request-clone", "request-song"} =>
        /\ call.isDirect = (call.ctx = "connected")
        /\ call.chunkSize = (IF call.isDirect THEN 64 * 1024 ELSE 30 * 1024)

\* A transfer starts toward a peer whose session exists and is not connected.
C8_Witness ==
    /\ call.op \in {"request-clone", "request-song"}
    /\ call.ctx = "negotiating"
    /\ call.chunkSize = 30 * 1024

\* C9 (dispatcher fault isolation and order): when the dispatch of a message
\* has run to its end, every handler that was registered during the whole
\* dispatch has been invoked for the message.
C9_AllHandlersInvoked ==
    \A k \in MsgIds :
        disp[k].pc = "done" =>
            \A h \in disp[k].stable :
                \E j \in 1 .. Len(dlog[k]) : dlog[k][j] = <<"call", h>>

\* C10 (single session per peer): no step replaces the session a node holds
\* for a peer by another handle, and a node creates one negotiation handle
\* for each peer that enters its table and none otherwise; a creation request
\* for a peer that has a session changes nothing.
C10_SingleSession ==
    [][\A n \in Nodes :
          /\ \A p \in (DOMAIN peers[n]) \cap (DOMAIN peers'[n]) :
                /\ peers'[n][p].h = peers[n][p].h
                /\ peers'[n][p].init = peers[n][p].init
          /\ hcount'[n] - hcount[n]
                = Cardinality((DOMAIN peers'[n]) \ (DOMAIN peers[n]))]_vars

\* A creation request for a peer that has a session is about to be handled:
\* the enter event of the peer, or a refresh whose member list holds it.
C10_Witness ==
    \E n \in Nodes : \E p \in DOMAIN peers[n] :
        /\ hcount[n] = 1
        /\ \/ evq[n] # <<>> /\ Head(evq[n]) = [type |-> "enter", clientId |-> p]
           \/ phase[n] = "running" /\ fetched[n].has /\ p \in fetched[n].ids

\* C11 (reassembly precondition): every item handed to storage was built
\* from a buffer whose slots 0 .. totalChunks-1, totalChunks being the value
\* the metadata message declared, all held chunk data, whose metadata had
\* arrived and whose processed flag was not set.
C11_ReassemblyPrecondition ==
    \A k \in 1 .. Len(reasm) :
        LET e == reasm[k] IN
        /\ e.metadata # NoMeta
        /\ ~e.processed
        /\ \A j \in 1 .. e.metadata.totalChunks :
              j <= Len(e.chunks) /\ e.chunks[j] # Undefined

\* Node n takes the next signal from its queue in this step.
SignalTaken(n) == sigq[n] # <<>> /\ sigq'[n] = Tail(sigq[n])

\* The session node n holds for p after this step has been fed a signal in it.
FedInStep(n, p) ==
    peers'[n][p].rh # (IF p \in DOMAIN peers[n] /\ peers[n][p].h = peers'[n][p].h
                       THEN peers[n][p].rh ELSE 0)

\* C12 (signal routing): a signal addressed to the local identifier is fed to
\* the session of its sender when one exists; creates a responder session fed
\* with it when none exists and it is an offer; changes nothing when none
\* exists and it is not an offer. No session is fed in a step that does not
\* take a signal addressed to the node and sent by the session's peer.
C12_SignalRouting ==
    [][\A n \in Nodes :
          /\ SignalTaken(n) =>
                LET m == Head(sigq[n])
                    p == m.from
                IN  IF p \in DOMAIN peers[n]
                    THEN /\ peers'[n] = [peers[n] EXCEPT ![p] = FeedSignal(@, m)]
                         /\ hcount'[n] = hcount[n]
                    ELSE IF m.type = "offer"
                    THEN /\ DOMAIN peers'[n] = (DOMAIN peers[n]) \cup {p}
                         /\ \A q \in DOMAIN peers[n] : peers'[n][q] = peers[n][q]
                         /\ ~peers'[n][p].init
                         /\ peers'[n][p].st = "gotoffer"
                         /\ peers'[n][p].rh = m.h
                         /\ hcount'[n] = hcount[n] + 1
                    ELSE /\ peers'[n] = peers[n]
                         /\ hcount'[n] = hcount[n]
                         /\ onlineIds'[n] = onlineIds[n]
          /\ \A p \in DOMAIN peers'[n] :
                FedInStep(n, p) =>
                    /\ SignalTaken(n)
                    /\ Head(sigq[n]).to = n
                    /\ Head(sigq[n]).from = p]_vars

\* A responder session exists that only an inbound offer can have created:
\* the node has not yet handled its presence snapshot nor the enter event of
\* the peer.
C12_Witness ==
    \E n \in Nodes : \E p \in DOMAIN peers[n] :
        /\ phase[n] = "entered"
        /\ evq[n] # <<>> /\ Head(evq[n]) = [type |-> "enter", clientId |-> p]
        /\ ~peers[n][p].init /\ peers[n][p].st = "gotoffer"

RECURSIVE ChunksInOrder(_, _, _, _)
\* The chunk messages c, c+1, ... of song i, for data of the given length.
ChunksInOrder(i, c, length, size) ==
    LET tc == TotalChunks(length, size) IN
    IF c >= tc THEN <<>>
    ELSE <<SentChunk(i, c, tc, c * size,
                     IF (c + 1) * size < length THEN (c + 1) * size ELSE length)>>
         \o ChunksInOrder(i, c + 1, length, size)

RECURSIVE ItemsInOrder(_, _, _)
\* Metadata and chunks of the songs i, i+1, ... of the playlist.
ItemsInOrder(playlist, i, size) ==
    IF i >= Len(playlist) THEN <<>>
    ELSE <<SentMeta(i, TotalChunks(playlist[i + 1], size))>>
         \o ChunksInOrder(i, 0, playlist[i + 1], size)
         \o ItemsInOrder(playlist, i + 1, size)

\* The message sequence of a whole batch.
BatchInOrder(playlist, size) ==
    <<SentStart(Len(playlist))>> \o ItemsInOrder(playlist, 0, size) \o <<SentComplete>>

\* C13 (sender message order): what a clone request for a playlist of N >= 1
\* songs has emitted is at every moment a prefix of: one clone-start, then
\* song by song its metadata followed by its chunks in increasing index, then
\* one clone-complete; when the handler has ended it is that whole sequence.
C13_SenderOrder ==
    \A t \in Transfers :
        (send[t].pc # "idle" /\ Len(send[t].playlist) >= 1) =>
            LET whole == BatchInOrder(send[t].playlist, send[t].chunkSize) IN
            /\ Len(emitted[t]) <= Len(whole)
            /\ emitted[t] = SubSeq(whole, 1, Len(emitted[t]))
            /\ send[t].pc = "done" => emitted[t] = whole

\* A batch of two songs, the second cut in several chunks, has been sent to
\* its end.
C13_Witness ==
    \E t \in Transfers :
        /\ send[t].pc = "done"
        /\ Len(send[t].playlist) = 2
        /\ TotalChunks(send[t].playlist[2], send[t].chunkSize) >= 2
        /\ emitted[t][Len(emitted[t])] = SentComplete

\* C14 (relay publish failure): a sendTo or broadcast call that published on
\* the rendezvous channel and whose publish is refused surfaces the failure to
\* its caller, by throwing or by what it returns, and has published once.
C14_PublishFailureSurfaced ==
    (/\ call.op \in {"sendTo", "broadcast"}
     /\ call.eff.relay # <<>>
     /\ call.publishFails)
        => /\ call.out.threw \/ call.out.returned # "undefined"
           /\ call.out.publishes = 1

\* C15 (malformed inbound payload): a malformed message received on the direct
\* channel, the data topic, the broadcast topic or the signal topic ends
\* without an uncaught exception and without an unhandled rejection.
C15_MalformedNeverEscapes ==
    call.op = "receive" => call.out.uncaught = "none"

\* The storage write of reassembly k has failed: it is no longer awaited and
\* no stored song holds its payload.
WriteFailed(k) ==
    /\ \A task \in tasks : ~(task.k = "addSong" /\ task.id = k)
    /\ \A j \in 1 .. Len(songs) : songs[j].data # reasm[k].data

\* C16 (storage failure during reassembly): when the storage write of item a
\* has failed, every later item b whose metadata and chunks have all been
\* handled, each once and before the transfer is finalized, has been
\* reassembled once, and its write is awaited, done, or has failed on its own.
C16_FailureIsolated ==
    \A a \in Items, b \in Items :
        (/\ a < b
         /\ \E k \in ReasmOf(a) : WriteFailed(k)
         /\ ItemDelivered(b) /\ inbox.dups = 0 /\ CompleteMsg(1) \notin inbox.done)
            => Cardinality(ReasmOf(b)) = 1

\* C18 (closed is terminal): a step in which the session of node n for p
\* leaves the table on a close or an error of its handle invokes the
\* disconnect callback of n; every session that enters the table carries a
\* handle created in that step, newer than every handle the node created
\* before, and is not connected: a removed session never comes back, and a
\* peer that reappears gets a new one.
C18_ClosedIsTerminal ==
    [][\A n \in Nodes :
          /\ \A p \in DOMAIN peers[n] : peers[n][p].h <= hcount[n]
          /\ \A p \in DOMAIN peers[n] :
                (p \notin DOMAIN peers'[n] /\ evq'[n] = evq[n])
                    => disconnects'[n] > disconnects[n]
          /\ \A p \in DOMAIN peers'[n] :
                (p \notin DOMAIN peers[n] \/ peers[n][p].h # peers'[n][p].h)
                    => /\ peers'[n][p].h > hcount[n]
                       /\ peers'[n][p].h <= hcount'[n]
                       /\ ~peers'[n][p].connected]_vars

\* The handle of a session has failed at a node whose peer has never left the
\* presence set, and the node holds a second session for that peer.
C18_Witness ==
    \E n \in Nodes : \E p \in DOMAIN peers[n] :
        /\ disconnects[n] > 0
        /\ phase[p] # "running"
        /\ peers[n][p].h = 2

\* The session with its warning mark cleared.
Unwarned(sess) == [sess EXCEPT !.warned = FALSE]

\* C19 (timeout is non-destructive): the step in which the connection timeout
\* of a session that is not connected fires leaves the session table, the
\* state of every session, the known-peer set and the count of disconnect
\* callbacks as they were. With timeouts as the only adversity, no session
\* ever leaves the table or is replaced.
C19_TimeoutNonDestructive ==
    [][\A n \in Nodes : \A p \in DOMAIN peers[n] :
          /\ p \in DOMAIN peers'[n]
          /\ peers'[n][p].h = peers[n][p].h
          /\ (~peers[n][p].warned /\ peers'[n][p].warned)
                => /\ ~peers[n][p].connected
                   /\ DOMAIN peers'[n] = DOMAIN peers[n]
                   /\ \A q \in DOMAIN peers[n] :
                         Unwarned(peers'[n][q]) = Unwarned(peers[n][q])
                   /\ onlineIds' = onlineIds
                   /\ disconnects' = disconnects
                   /\ hcount' = hcount]_vars

\* A session whose timeout fired while it was negotiating is connected.
C19_Witness ==
    \E n \in Nodes : \E p \in DOMAIN peers[n] :
        peers[n][p].warned /\ peers[n][p].connected

\* C20 (presence leave): after the step in which node n handles a leave event
\* of P, P is not in the known-peer set of n and the table of n holds no
\* session for P; if it held one before, the disconnect callback of n was
\* invoked.
C20_PresenceLeave ==
    [][\A n \in Nodes :
          (/\ evq[n] # <<>>
           /\ Head(evq[n]).type = "leave"
           /\ evq'[n] = Tail(evq[n]))
              => LET P == Head(evq[n]).clientId
                 IN  /\ P \notin onlineIds'[n]
                     /\ P \notin DOMAIN peers'[n]
                     /\ P \in DOMAIN peers[n] => disconnects'[n] > disconnects[n]
                     /\ P \notin DOMAIN peers[n] => disconnects'[n] = disconnects[n]]_vars

\* Node n has handled the leave event of a peer it held a session for.
C20_Witness ==
    \E n \in Nodes, p \in Nodes :
        /\ p # n
        /\ phase[p] = "running" /\ p \notin presence
        /\ faults = 1
        /\ evq[n] = <<>>
        /\ disconnects[n] > 0
        /\ p \notin onlineIds[n]
        /\ p \notin DOMAIN peers[n]
        /\ hcount[n] > 0

\* C17 (broadcast path), as stated: every broadcast call publishes the message
\* once on the 'broadcast' topic and writes to no direct channel.
C17_BroadcastAlwaysPublishes ==
    call.op = "broadcast" =>
        /\ call.eff.relay = <<[from |-> call.n, payload |-> call.data]>>
        /\ \A p \in DOMAIN call.eff.direct : call.eff.direct[p] = <<>>

\* C17 (broadcast path), amended: a broadcast call made while the service holds
\* its rendezvous channel publishes the message once on the 'broadcast' topic;
\* a call made without a channel publishes nothing; in both cases nothing is
\* written to a direct channel, connected sessions or not.
C17_BroadcastPath ==
    call.op = "broadcast" =>
        /\ call.ready => call.eff.relay = <<[from |-> call.n, payload |-> call.data]>>
        /\ ~call.ready => call.eff.relay = <<>>
        /\ DOMAIN call.eff.direct = call.connected
        /\ \A p \in call.connected : call.eff.direct[p] = <<>>

\* broadcast was called by a node that holds a connected session.
C17_Witness ==
    /\ call.op = "broadcast"
    /\ call.ready
    /\ call.connected # {}
    /\ Len(call.eff.relay) = 1

\* C21 (reconciliation recovers missed joins): after the step in which a
\* refresh of node n applies the presence list it fetched, every identifier of
\* that list other than n is in the known-peer set of n and has a session in
\* the table of n.
C21_RefreshRecovers ==
    [][\A n \in Nodes :
          (phase[n] = "running" /\ fetched[n] # NoFetch /\ fetched'[n] = NoFetch)
              => \A id \in fetched[n].ids \ {n} :
                    /\ id \in onlineIds'[n]
                    /\ id \in DOMAIN peers'[n]]_vars

\* A refresh has given node n a second session for a peer whose first session
\* failed, while the enter event of that peer is still undelivered.
C21_Witness ==
    \E n \in Nodes : \E p \in DOMAIN peers[n] :
        /\ phase[n] = "running"
        /\ evq[n] # <<>> /\ Head(evq[n]) = [type |-> "enter", clientId |-> p]
        /\ peers[n][p].init
        /\ peers[n][p].h = 2
        /\ disconnects[n] > 0
        /\ faults = 1

\* C22 (bounded reconciliation polling): the periodic reconciliation of a node
\* that stays initialized runs a bounded number of rounds, so from some moment
\* on the node has no presence fetch under way any more.
C22_PollingStops ==
    \A n \in Nodes : <>[](fetched[n] = NoFetch)

\* C23 (location-request retry cap), as stated: at most 3 rounds are resent,
\* and the timer is not armed once a marker exists or once the third attempt
\* has been made.
C23_TimerStoppedAtOnce ==
    /\ loc.resends <= MaxAttempts
    /\ loc.markers => ~loc.timer
    /\ loc.attempts >= MaxAttempts => ~loc.timer

\* C23 (location-request retry cap), amended: the timer resends in at most 3
\* rounds; a round is resent only by a firing that finds no marker; the first
\* firing that finds a marker stops the timer, and so does the fourth firing:
\* the timer fires at most 4 times.
C23_RetryCap ==
    [][/\ loc.resends <= MaxAttempts
       /\ loc.attempts <= MaxAttempts + 1
       /\ loc.attempts > MaxAttempts => ~loc.timer
       /\ loc'.resends # loc.resends =>
             /\ loc'.resends = loc.resends + 1
             /\ loc.timer /\ ~loc.markers
             /\ loc'.attempts = loc.attempts + 1
       /\ (loc'.attempts # loc.attempts /\ (loc.markers \/ loc.attempts >= MaxAttempts))
             => ~loc'.timer]_vars

\* Three rounds were resent and the fourth firing has stopped the timer.
C23_Witness ==
    /\ loc.resends = MaxAttempts
    /\ loc.attempts = MaxAttempts + 1
    /\ ~loc.timer /\ loc.mounted

\* C24 (transfer-error handling): after the step in which the clone-error
\* message of peer P is handled, the transfer session is inactive and no
\* buffer keyed by P remains.
C24_ErrorAborts ==
    [][(SentError \in inbox.pending /\ SentError \in inbox'.done)
          => /\ ~cloneProgress'.active
             /\ \A key \in DOMAIN songChunksBuffer' : key[1] # SrcPeer]_vars

\* The error was handled while the buffer of an item held a chunk: the chunk
\* was handled, nothing was reassembled, and no buffer is left.
C24_Witness ==
    /\ SentError \in inbox.done
    /\ \E m \in inbox.done : m.type = "clone-song-chunk"
    /\ reasm = <<>>
    /\ songChunksBuffer = EmptyMap
    /\ ~cloneProgress.active

\* C25 (send cancellation on teardown): once the session of the requesting
\* peer has been torn down during a pacing delay of the send loop, the loop
\* emits no further metadata, chunk or clone-complete message of the transfer.
C25_SendCancelled ==
    \A t \in Transfers :
        send[t].tornAt >= 0 => Len(emitted[t]) = send[t].tornAt

\* The message handled in this step, if one is.
Handled(m) == m \in inbox.pending /\ m \in inbox'.done

\* C26 (no data loss across metadata/chunk order): a chunk message handled
\* when its item has no buffer creates the buffer, without metadata, and
\* stores its data in its slot; a metadata message handled when the buffer
\* exists sets the metadata field and leaves the chunk slots, totalChunks, the
\* processed flag and every other buffer as they were.
C26_OrderFrame ==
    [][\A m \in OddMsgs :
          Handled(m) =>
             LET key == BufKey(SrcPeer, m.songIndex) IN
             /\ (m.type = "clone-song-chunk" /\ key \notin DOMAIN songChunksBuffer)
                   => /\ key \in DOMAIN songChunksBuffer'
                      /\ songChunksBuffer'[key].chunks[m.chunkIndex + 1] = m.data
                      /\ songChunksBuffer'[key].totalChunks = m.totalChunks
                      /\ songChunksBuffer'[key].metadata = NoMeta
             /\ (m.type = "clone-song-meta" /\ key \in DOMAIN songChunksBuffer)
                   => /\ DOMAIN songChunksBuffer' = DOMAIN songChunksBuffer
                      /\ songChunksBuffer'[key].metadata = m
                      /\ songChunksBuffer'[key].chunks = songChunksBuffer[key].chunks
                      /\ songChunksBuffer'[key].totalChunks = songChunksBuffer[key].totalChunks
                      /\ songChunksBuffer'[key].processed = songChunksBuffer[key].processed
                      /\ \A other \in DOMAIN songChunksBuffer \ {key} :
                            songChunksBuffer'[other] = songChunksBuffer[other]]_vars

\* The metadata was attached to a buffer that a chunk had created: the buffer
\* keeps the totalChunks of that chunk, which differs from the metadata's, and
\* the chunk's data.
C26_Witness ==
    \E key \in DOMAIN songChunksBuffer :
        /\ songChunksBuffer[key].metadata # NoMeta
        /\ songChunksBuffer[key].totalChunks # songChunksBuffer[key].metadata.totalChunks
        /\ \E k \in DOMAIN songChunksBuffer[key].chunks :
              songChunksBuffer[key].chunks[k] # Undefined

\* The number of filled slots of a chunk array.
Filled(chunks) == Cardinality({k \in DOMAIN chunks : chunks[k] # Undefined})

\* C27 (duplicate chunk idempotence): handling once more a chunk message that
\* was handled and whose data is in its slot leaves every slot and the
\* filled-slot count as they are; when fewer slots are filled than the message
\* declares, it leaves the whole buffer table as it is and hands nothing to
\* addSong.
C27_DuplicateIdempotent ==
    \A m \in inbox.done :
        LET key == BufKey(SrcPeer, m.songIndex) IN
        (/\ m.type = "clone-song-chunk"
         /\ key \in DOMAIN songChunksBuffer
         /\ m.chunkIndex + 1 \in DOMAIN songChunksBuffer[key].chunks
         /\ songChunksBuffer[key].chunks[m.chunkIndex + 1] = m.data)
            => LET r == HandleSongChunk(songChunksBuffer, cloneProgress, SrcPeer, m)
               IN  /\ r.sb[key].chunks = songChunksBuffer[key].chunks
                   /\ Filled(r.sb[key].chunks) = Filled(songChunksBuffer[key].chunks)
                   /\ Filled(songChunksBuffer[key].chunks) < m.totalChunks
                         => r.sb = songChunksBuffer /\ r.song = NoSong

\* A chunk was handled, its data is in its slot, and the buffer, which has its
\* metadata, lacks one slot of the two it declares.
C27_Witness ==
    \E m \in inbox.done : \E key \in DOMAIN songChunksBuffer :
        /\ m.type = "clone-song-chunk" /\ key = BufKey(SrcPeer, m.songIndex)
        /\ m.chunkIndex + 1 \in DOMAIN songChunksBuffer[key].chunks
        /\ songChunksBuffer[key].chunks[m.chunkIndex + 1] = m.data
        /\ songChunksBuffer[key].metadata # NoMeta
        /\ Filled(songChunksBuffer[key].chunks) + 1 = m.totalChunks

\* The chunk messages among the messages a request has emitted, in order.
ChunksEmitted(t) ==
    LET IsChunk(m) == m.type = "clone-song-chunk"
    IN  SelectSeq(emitted[t], IsChunk)

\* C28 (chunk split round-trip): for a song of length L > 0 cut with chunk size
\* S, the declared totalChunks is the least k with k * S >= L; the chunks
\* emitted so far carry the indexes 0, 1, ... and that totalChunks, each is the
\* piece [chunkIndex * S, min(chunkIndex * S + S, L)) of the data, so at most S
\* long and contiguous with its predecessor; when the handler has ended there
\* are exactly totalChunks of them, all but the last S long, and the last ends
\* at L: joined in chunkIndex order they are the data.
C28_SplitRoundTrip ==
    \A t \in Transfers :
        send[t].pc # "idle" =>
            LET L  == send[t].playlist[1]
                S  == send[t].chunkSize
                tc == emitted[t][2].totalChunks
                cs == ChunksEmitted(t)
            IN  /\ emitted[t][2].type = "clone-song-meta"
                /\ tc * S >= L /\ (tc - 1) * S < L
                /\ Len(cs) <= tc
                /\ \A k \in 1 .. Len(cs) :
                      /\ cs[k].chunkIndex = k - 1
                      /\ cs[k].totalChunks = tc
                      /\ cs[k].start = (IF k = 1 THEN 0 ELSE cs[k - 1].end)
                      /\ cs[k].end > cs[k].start
                      /\ cs[k].end - cs[k].start <= S
                      /\ k < tc => cs[k].end - cs[k].start = S
                      /\ k = tc => cs[k].end = L
                /\ send[t].pc = "done" => Len(cs) = tc

\* A song of twice the chunk size plus one has been sent to its end: three
\* chunks, the last of one character.
C28_Witness ==
    \E t \in Transfers :
        /\ send[t].pc = "done"
        /\ send[t].playlist[1] = 2 * send[t].chunkSize + 1
        /\ Len(ChunksEmitted(t)) = 3
        /\ ChunksEmitted(t)[3].end - ChunksEmitted(t)[3].start = 1

\* C29 (dynamic handler registration): a handler that is registered and not
\* removed when a message is dispatched is invoked for it, in whatever order
\* the shell and the view were mounted, and a handler removed before the
\* dispatch is not.
C29_RegisteredHandlerInvoked ==
    \A k \in mnt.seen :
        /\ \A handler \in mnt.due[k] : <<"call", handler>> \in Range(dlog[k])
        /\ \A handler \in mnt.gone[k] : <<"call", handler>> \notin Range(dlog[k])

\* C30 (stale close does not remove a newer session): when the leave of a
\* peer that had a session and the enter that follows it are handled before
\* the close event of the destroyed handle is delivered, that close event
\* leaves the session created for the enter in the table.
C30_StaleCloseKeepsNewer ==
    [][\A n \in Nodes :
          (/\ Len(evq[n]) >= 2
           /\ evq'[n] = Tail(Tail(evq[n]))
           /\ evq[n][1].type = "leave" /\ evq[n][2].type = "enter"
           /\ evq[n][1].clientId = evq[n][2].clientId
           /\ evq[n][1].clientId \in DOMAIN peers[n])
          => LET p == evq[n][1].clientId
             IN  /\ p \in DOMAIN peers'[n]
                 /\ peers'[n][p].h > peers[n][p].h]_vars

\* C31 (disconnect notified once): the peer-disconnected callback is invoked at
\* most once per session: a step in which sessions of node n end, through a
\* presence leave, an error event or a close event, invokes it no more often
\* than the number of sessions that ended.
C31_DisconnectOnce ==
    [][\A n \in Nodes :
          disconnects'[n] - disconnects[n]
              <= Cardinality((DOMAIN peers[n]) \ (DOMAIN peers'[n]))]_vars

\* Message k of request t was passed to sendTo after the session of the
\* requesting peer was torn down: peer?.connected is false and sendTo publishes
\* it on the relay topic.
SentOnRelay(t, k) == send[t].tornAt >= 0 /\ k > send[t].tornAt

\* C32 (relay size limit respected): no chunk message published on the relay
\* path carries more data than the relay chunk size, also when the direct
\* channel closes after the chunk size was chosen and before the transfer has
\* finished.
C32_RelayLimit ==
    \A t \in Transfers :
        \A k \in 1 .. Len(emitted[t]) :
            (SentOnRelay(t, k) /\ emitted[t][k].type = "clone-song-chunk")
                => emitted[t][k].end - emitted[t][k].start <= RELAY_CHUNK_SIZE

\* C33 (destination collection binding): an item of transfer 1 that is
\* reassembled after the clone-start of transfer 1 was handed to the data
\* handler is built with the playlist identifier created by that clone-start:
\* not with 0, and not with the identifier of another transfer.
C33_OwnCollection ==
    [][(StartMsg(1) \in inbox.done /\ Len(reasm') > Len(reasm))
          => /\ xfer[1].pl # 0
             /\ reasm'[Len(reasm')].playlistId = xfer[1].pl]_vars

\* The complete text of song i of the playlist of request t.
WholeItem(t, i) ==
    [k \in 1 .. TotalChunks(send[t].playlist[i + 1], send[t].chunkSize) |->
        100 * t + 10 * (i + 1) + (k - 1)]

\* C34 (no chunk mixing): every item handed to storage has the complete text
\* of one song of one request of its source peer, also when two requests are
\* answered at the same time and their messages interleave.
C34_NoChunkMixing ==
    \A k \in 1 .. Len(reasm) :
        \E t \in Transfers : \E i \in 0 .. (Len(send[t].playlist) - 1) :
            reasm[k].data = WholeItem(t, i)

\* The step ends the processing of a clone-error or of a clone-complete
\* message of the source peer.
CleanupStep ==
    \/ SentError \in inbox.pending /\ SentError \in inbox'.done
    \/ \E task \in tasks : task.k = "finalizeReport" /\ task \notin tasks'

\* C35 (per-peer isolation of buffer cleanup): processing a clone-complete or
\* a clone-error message of peer P leaves every buffer keyed by another peer
\* as it was.
C35_CleanupIsolated ==
    [][CleanupStep =>
          \A key \in DOMAIN songChunksBuffer :
              key[1] # SrcPeer =>
                  /\ key \in DOMAIN songChunksBuffer'
                  /\ songChunksBuffer'[key] = songChunksBuffer[key]]_vars

\* C36 (teardown is final): once destroy() has completed at a node, its
\* session table and its known-peer set are empty, and they stay empty: no
\* refresh that was in flight when destroy() was called fills them again.
C36_TeardownFinal ==
    \A n \in Nodes :
        phase[n] = "destroyed" => (peers[n] = EmptyMap /\ onlineIds[n] = {})

\* C37 (progress bounds): while the transfer session is active its counter of
\* completed items stays between 0 and the announced total; a step raises it
\* by one exactly when an item has been stored, and a failed write leaves it.
C37_ProgressBounds ==
    /\ [](cloneProgress.active =>
             (0 <= cloneProgress.current /\ cloneProgress.current <= cloneProgress.total))
    /\ [][/\ Len(songs') = Len(songs) + 1 => cloneProgress'.current = cloneProgress.current + 1
          /\ Len(songs') = Len(songs) => cloneProgress'.current <= cloneProgress.current]_vars

\* C38 (self-exclusion): in every state the identifier of a node is not in
\* its known-peer set, is not a key of its session table and is not in the
\* result of getAllPeerIds; the data handler is not invoked for a relay or
\* broadcast message the node published itself, nor for a relay message
\* addressed to another identifier.
C38_SelfExclusion ==
    /\ \A n \in Nodes :
          /\ n \notin onlineIds[n]
          /\ n \notin DOMAIN peers[n]
          /\ n \notin AllPeerIds(n)
    /\ (call.op = "deliver" /\ call.invoked)
          => /\ call.msg.from # call.n
             /\ call.topic = "data" => call.msg.to = call.n

\* A running node that took a snapshot holding its own identifier and knows a
\* peer gets back a broadcast it published itself.
C38_Witness ==
    /\ call.op = "deliver" /\ call.topic = "broadcast"
    /\ call.msg.from = call.n
    /\ ~call.invoked
    /\ phase[call.n] = "running"
    /\ onlineIds[call.n] # {}
    /\ call.n \in presence

\* The callbacks of view instances among the callbacks an event ran.
ViewCallbacks(ran) ==
    LET IsView(c) == c > 0
    IN  SelectSeq(ran, IsView)

\* C39 (no callback accumulation across view remounts): a peer-connected or a
\* peer-disconnected event runs the callback of the view instance that is
\* mounted, once, and of no other view instance: one request-location per
\* peer-connected event, and nothing from an instance that was unmounted.
C39_NoAccumulation ==
    [][/\ mnt'.conn # mnt.conn
          => ViewCallbacks(mnt'.conn.ran) = (IF mnt.view # 0 THEN <<mnt.view>> ELSE <<>>)
       /\ mnt'.disc # mnt.disc
          => ViewCallbacks(mnt'.disc.ran) = (IF mnt.view # 0 THEN <<mnt.view>> ELSE <<>>)]_vars

====
